---- MODULE Spec2Model ----
(***************************************************************************)
(* Model of the test-execution lifecycle of the hotel-booking end-to-end   *)
(* suite: the status record kept by TestExecutionHelper, the step          *)
(* wrappers executeStep / executeOptionalStep, finalizeTest with the       *)
(* summary persisted by ReportingUtils.saveTestSummary into the run folder *)
(* managed by ReporterManager, the failure screenshot hook, and the body   *)
(* of the test "Verify hotel funnel check".                                *)
(*                                                                         *)
(* Nine specifications are given.  SpecApi lets a caller invoke the public *)
(* operations of TestExecutionHelper in any order.  Spec runs the test     *)
(* body of tests/hotel_e2e.spec.ts, one test per destination, with its     *)
(* retry loops.  SpecWorkers has the main process load playwright.config   *)
(* and spawn two worker processes that run tests side by side.             *)
(* SpecReporter and SpecConfig have one process call into ReporterManager  *)
(* and into its ConfigManager instance.  SpecSuite runs the tests of the   *)
(* file one after the other in one worker, SpecEnv does so under any value *)
(* of TEST_ENV with setEnvironment calls in between.  SpecData has callers *)
(* load fixtures through TestDataManager, and SpecWait has them call       *)
(* TestUtils.waitForElementWithRetry.                                      *)
(***************************************************************************)
EXTENDS Integers, Sequences, FiniteSets, TLC

VARIABLES
  testEnv,          \* process.env.TEST_ENV ("" when unset)
  useLambdaTest,    \* process.env.USE_LAMBDATEST === 'true'
  envRunTimestamp,  \* process.env.PLAYWRIGHT_RUN_TIMESTAMP ("" when unset)
  runTimestamp,     \* ReporterManager.runTimestamp ("" for null)
  currentEnv,       \* ConfigManager.currentEnv
  clock,            \* wall clock, in half minutes
  fsDirs,           \* output base directory: folder name -> its test-summary.json
  testStartTime,    \* TestExecutionHelper.testStartTime
  testStatus,       \* TestExecutionHelper.testStatus (process-wide record)
  callerStatus,     \* a record a caller got from createTestStatus() and passes explicitly
  out,              \* what the last call returned, raised, attached and marked
  calls,            \* number of operations called so far (SpecApi)
  page,             \* the page handle of the running test
  skipPayment,      \* commonData.testFlags.skipPayment of the fixture
  testData,         \* testInfo.testData, the testData object of the running test
  pc,               \* position in the test body
  stepIdx,          \* index of the next step of the test body
  testIdx,          \* index of the destination the running test is for
  executed,         \* names of the steps whose step function was invoked, in order
  events,           \* hooks of the test body in the order they ran
  caught,           \* the error caught by the test body's catch block
  runnerError,      \* the error the test body raised to the test runner
  workers,          \* the worker processes of the run: their environment and static state
  testDataCache,    \* TestDataManager.testDataCache: file name -> the object cached for it
  heap,             \* the objects JSON.parse has created: object -> its content now
  dataFiles         \* tests/testdata: file name -> what the file holds

vars == << testEnv, useLambdaTest, envRunTimestamp, runTimestamp, currentEnv, clock,
           fsDirs, testStartTime, testStatus, callerStatus, out, calls, page, skipPayment,
           testData, pc, stepIdx, testIdx, executed, events, caught, runnerError,
           workers, testDataCache, heap, dataFiles >>

envVars  == << testEnv, useLambdaTest, currentEnv >>
bodyVars == << page, skipPayment, pc, stepIdx, testIdx, executed, events, caught, runnerError >>
dataVars == << testDataCache, heap, dataFiles >>

----------------------------------------------------------------------------
(* Bounds of the model *)

MaxCalls == 3      \* operations called in one behaviour of SpecApi
MaxClock == 1      \* half minutes the wall clock may advance
MaxMinutes == 1    \* whole minutes that may pass between calls into ReporterManager

----------------------------------------------------------------------------
(* Values *)

Undefined == "undefined"                 \* the JavaScript value undefined
NoStatus  == [undefined |-> TRUE]        \* testStatus before initializeTest
NoFile    == <<>>                        \* a folder without test-summary.json
NoError   == [thrown |-> FALSE, message |-> ""]
Err(m)    == [thrown |-> TRUE, message |-> m]

\* Errors thrown by step functions are Error objects; only the message matters.
Messages == {"", "Timeout 30000ms exceeded"}

\* What a step function does when invoked.
StepOutcomes ==
  [threw : {FALSE}, value : {"done"}, message : {""}]
    \cup [threw : {TRUE}, value : {Undefined}, message : Messages]

DefaultValues == {Undefined, "fallback"}

\* Page handles: null, a live page, a closed page, a handle whose isClosed()
\* throws, and an object without an isClosed function.
PageKinds == {"null", "open", "closed", "isClosedThrows", "noIsClosed"}

\* Outcome of capturing a full-page screenshot and attaching it.
ShotOutcomes == {"ok", "captureThrows", "attachThrows"}

\* Outcome of the file-system calls of saveTestSummary.
FsOutcomes == {"ok", "mkdirThrows", "writeThrows"}

Destinations == <<"Bangkok", "Bali">>

\* JavaScript values carry their type.
Str(s)   == [t |-> "string",  v |-> s]
Bool(b)  == [t |-> "boolean", v |-> b]
Num(n)   == [t |-> "number",  v |-> n]
Obj(m)   == [t |-> "object",  v |-> m]   \* m: sequence of <<key, value>> in insertion order
Undef    == [t |-> "undefined", v |-> Undefined]
NaN      == [t |-> "nan",  v |-> Undefined]   \* the number NaN
Null     == [t |-> "null", v |-> Undefined]

\* testData objects as the test body builds them (hotel_e2e.spec.ts:31-34), and
\* the afterEach default {}.
TestDataValues ==
  { Obj(<<>>) } \cup
  { Obj(<< <<"destination", Str(Destinations[i])>>, <<"skipPayment", Bool(s)>> >>) :
      i \in 1..Len(Destinations), s \in BOOLEAN }

----------------------------------------------------------------------------
(* JavaScript objects, JSON.stringify and JSON.parse *)

Keys(m) == { m[i][1] : i \in 1..Len(m) }

\* obj[key]; undefined when the object has no such member.
Get(obj, key) ==
  IF key \in Keys(obj.v)
    THEN LET i == CHOOSE j \in 1..Len(obj.v) : obj.v[j][1] = key
         IN obj.v[i][2]
    ELSE Undef

\* { ...a, ...b }: a member of a keeps its position and takes b's value when b
\* has the key; the members only b has follow in b's order.
RECURSIVE SpreadNew(_, _)
SpreadNew(a, b) ==
  IF b = <<>> THEN <<>>
  ELSE IF Head(b)[1] \in Keys(a) THEN SpreadNew(a, Tail(b))
       ELSE <<Head(b)>> \o SpreadNew(a, Tail(b))

Spread(a, b) ==
  Obj([i \in 1..Len(a.v) |->
         IF a.v[i][1] \in Keys(b.v) THEN <<a.v[i][1], Get(b, a.v[i][1])>> ELSE a.v[i]]
      \o SpreadNew(a.v, b.v))

\* JSON.stringify: every value becomes text; a member whose value is undefined
\* is left out.  Nesting goes two levels deep (the summary and its testData).
StringifyLeaf(x) ==
  CASE x.t = "string"  -> [j |-> "string",  text |-> x.v]
    [] x.t = "boolean" -> [j |-> "literal", text |-> IF x.v THEN "true" ELSE "false"]
    [] x.t = "number"  -> [j |-> "number",  text |-> ToString(x.v)]
    [] x.t = "nan"     -> [j |-> "literal", text |-> "null"]
    [] x.t = "null"    -> [j |-> "literal", text |-> "null"]

RECURSIVE StringifyFlat(_)
StringifyFlat(m) ==
  IF m = <<>> THEN <<>>
  ELSE LET k == Head(m)[1]
           x == Head(m)[2]
       IN IF x.t = "undefined" THEN StringifyFlat(Tail(m))
          ELSE << <<k, StringifyLeaf(x)>> >> \o StringifyFlat(Tail(m))

RECURSIVE StringifyMembers(_)
StringifyMembers(m) ==
  IF m = <<>> THEN <<>>
  ELSE LET k == Head(m)[1]
           x == Head(m)[2]
           rest == StringifyMembers(Tail(m))
       IN IF x.t = "undefined" THEN rest
          ELSE IF x.t = "object"
            THEN << <<k, [j |-> "object", members |-> StringifyFlat(x.v)]>> >> \o rest
            ELSE << <<k, StringifyLeaf(x)>> >> \o rest

JsonStringify(x) ==
  IF x.t = "object"
    THEN [j |-> "object", members |-> StringifyMembers(x.v)]
    ELSE StringifyLeaf(x)

\* Milliseconds in one tick of the model's clock (half a minute).
TickMs == 30 * 1000

\* JSON.parse: the inverse reading of the text.
ParseLeaf(js) ==
  CASE js.j = "string"  -> Str(js.text)
    [] js.j = "literal" -> IF js.text = "null" THEN Null ELSE Bool(js.text = "true")
    [] js.j = "number"  -> Num(CHOOSE n \in {TickMs * k : k \in 0..MaxClock} : ToString(n) = js.text)

ParseFlat(members) ==
  Obj([i \in 1..Len(members) |-> <<members[i][1], ParseLeaf(members[i][2])>>])

JsonParse(js) ==
  IF js.j = "object"
    THEN Obj([i \in 1..Len(js.members) |->
               <<js.members[i][1],
                 IF js.members[i][2].j = "object"
                   THEN ParseFlat(js.members[i][2].members)
                   ELSE ParseLeaf(js.members[i][2])>>])
    ELSE ParseLeaf(js)

\* Deep equality of two JavaScript values of the model.
SameLeaf(a, b) == a.t = b.t /\ (a.t \in {"undefined", "nan", "null"} \/ a.v = b.v)

SameFlat(a, b) ==
  /\ Len(a.v) = Len(b.v)
  /\ \A i \in 1..Len(a.v) : a.v[i][1] = b.v[i][1] /\ SameLeaf(a.v[i][2], b.v[i][2])

SameValue(a, b) ==
  /\ a.t = b.t
  /\ IF a.t = "object" THEN SameFlat(a, b) ELSE SameLeaf(a, b)

----------------------------------------------------------------------------
(* ConfigManager *)

\* config.json: the environments map and the default environment.
ConfigEnvironments == {"prod", "staging"}
DefaultEnvironment == "prod"

\* Names every object JSON.parse returns answers to without having them as
\* keys: the members it inherits from Object.prototype.
ObjectPrototypeNames == {"constructor", "toString"}

\* Values of TEST_ENV: unset, an environment of the map, a name that is none,
\* a name that is none but that every object answers to.
TestEnvValues == {"", "staging", "qa", "constructor"}

\* this.config.environments[env], as the condition of an if: true for a key of
\* the map, whose value is an object, and for an inherited member, whose value
\* is a function.
environmentsLookup(env) == env \in ConfigEnvironments \/ env \in ObjectPrototypeNames

\* The constructor's choice of currentEnv.
ConfigManagerConstructor(env) ==
  LET chosen == IF env # "" THEN env
                ELSE IF DefaultEnvironment # "" THEN DefaultEnvironment ELSE "prod"
  IN IF environmentsLookup(chosen) THEN chosen ELSE DefaultEnvironment

\* setEnvironment(env) with currentEnv = cur: the error raised, if any, and
\* the currentEnv left behind.
setEnvironment(cur, env) ==
  IF ~environmentsLookup(env)
    THEN [raised |-> TRUE, error |-> "Environment '" \o env \o "' not found in config",
          currentEnv |-> cur]
    ELSE [raised |-> FALSE, error |-> "", currentEnv |-> env]

\* getBaseUrl(): this.config.environments[this.currentEnv].baseUrl, a string
\* for an environment of the map, undefined for an inherited member.
getBaseUrl(cur) ==
  IF cur \in ConfigEnvironments THEN Str("baseUrl of " \o cur) ELSE Undefined

getEnvironment == currentEnv

----------------------------------------------------------------------------
(* TestDataManager *)

\* Files callers ask for: the fixture of the suite, and another one.
FileNames == {"testdata.json", "extra.json"}

\* What JSON.parse makes of a fixture file: the destinations and the
\* skipPayment flag of hotels.commonData.testFlags.
Fixtures ==
  { [destinations |-> << "Bangkok", "Bali" >>, skipPayment |-> FALSE],
    [destinations |-> << "Bangkok" >>, skipPayment |-> TRUE] }

NoContent == [destinations |-> << >>, skipPayment |-> FALSE]

\* What a file of tests/testdata holds: nothing (no such file), text that is
\* no JSON, or the text of a fixture.
AbsentFile  == [kind |-> "absent", content |-> NoContent]
InvalidFile == [kind |-> "invalid", content |-> NoContent]
FileStates ==
  {AbsentFile, InvalidFile} \cup { [kind |-> "json", content |-> x] : x \in Fixtures }

\* What tests/testdata holds when no claim is about it.
DefaultFiles == [f \in FileNames |-> AbsentFile]

NoObject == 0 - 1

\* What a caller can do to an object it was handed: switch the flag on, or
\* drop the last destination.
Mutations(content) ==
  { [content EXCEPT !.skipPayment = TRUE] }
    \cup (IF content.destinations = << >> THEN {}
          ELSE { [content EXCEPT !.destinations =
                    SubSeq(content.destinations, 1, Len(content.destinations) - 1)] })

\* loadTestData(fileName) with the cache, the objects and the files as given:
\* the error raised or the object returned, whether the file was read, and the
\* cache and objects left behind.
loadTestData(cache, objects, files, fileName) ==
  IF fileName \in DOMAIN cache
    THEN [raised |-> FALSE, error |-> "", ret |-> cache[fileName], read |-> FALSE,
          cache |-> cache, heap |-> objects]
  ELSE IF files[fileName].kind = "absent"
    THEN [raised |-> TRUE,
          error |-> "Test data file not found: /project/tests/testdata/" \o fileName,
          ret |-> NoObject, read |-> FALSE, cache |-> cache, heap |-> objects]
  ELSE IF files[fileName].kind = "invalid"
    THEN [raised |-> TRUE, error |-> "Unexpected token in JSON at position 0",
          ret |-> NoObject, read |-> TRUE, cache |-> cache, heap |-> objects]
  ELSE LET object == Cardinality(DOMAIN objects) + 1
       IN [raised |-> FALSE, error |-> "", ret |-> object, read |-> TRUE,
           cache |-> (fileName :> object) @@ cache,
           heap |-> (object :> files[fileName].content) @@ objects]

----------------------------------------------------------------------------
(* ReporterManager *)

OutputBaseDir == "/project"

PathJoin(dir, name) == dir \o "/" \o name

StartsWith(str, prefix) ==
  Len(str) >= Len(prefix) /\ SubSeq(str, 1, Len(prefix)) = prefix

\* generateTimestamp(): the wall clock to the minute, YYYY-MM-DD_HH-MM.
generateTimestamp(c) == "2025-01-01_10-0" \o ToString(c \div 2)

\* new Date().toISOString()
toISOString(c) ==
  "2025-01-01T10:0" \o ToString(c \div 2) \o ":"
     \o (IF c % 2 = 0 THEN "00" ELSE "30") \o ".000Z"

\* A faulty variant of getRunTimestamp: the environment variable is written
\* but never read, only the static field is consulted.
getRunTimestampStaticOnly(envTs, staticTs, c) ==
  IF staticTs = ""
    THEN [value  |-> generateTimestamp(c),
          env    |-> generateTimestamp(c),
          static |-> generateTimestamp(c), generated |-> TRUE]
    ELSE [value |-> staticTs, env |-> envTs, static |-> staticTs, generated |-> FALSE]

\* A faulty variant of getRunTimestamp: the generated timestamp is returned
\* but kept nowhere.
getRunTimestampUncached(envTs, staticTs, c) ==
  IF envTs # ""
    THEN [value |-> envTs, env |-> envTs, static |-> staticTs, generated |-> FALSE]
    ELSE [value |-> generateTimestamp(c), env |-> envTs, static |-> staticTs,
          generated |-> TRUE]

\* getRunTimestamp(): the value returned and the environment variable and
\* static field it leaves behind.
getRunTimestamp(envTs, staticTs, c) ==
  IF envTs # ""
    THEN [value |-> envTs, env |-> envTs, static |-> staticTs, generated |-> FALSE]
    ELSE IF staticTs = ""
      THEN [value  |-> generateTimestamp(c),
            env    |-> generateTimestamp(c),
            static |-> generateTimestamp(c), generated |-> TRUE]
      ELSE [value |-> staticTs, env |-> envTs, static |-> staticTs, generated |-> FALSE]

\* The folder name generateCurrentReportFolder() derives.
ReportFolderName(baseFolder, env, lambda, timestamp) ==
  baseFolder \o "-" \o (IF env # "" THEN env ELSE "prod") \o "-"
     \o (IF lambda THEN "lambdatest" ELSE "local") \o "-" \o timestamp

generateCurrentReportFolder(env, lambda, timestamp) ==
  PathJoin(OutputBaseDir, ReportFolderName("report", env, lambda, timestamp))

\* A faulty variant of cleanupOldReports: the filter tests for the prefix
\* 'reports-', which no folder has, so nothing is removed.
cleanupOldReportsWrongPrefix(dirs, currentName, stuck) ==
  [d \in {e \in DOMAIN dirs :
            ~(StartsWith(e, "reports-") /\ e # currentName /\ e \notin stuck)} |-> dirs[d]]

\* cleanupOldReports(): the folders left in the output base directory.  stuck
\* are the folders whose fs.rmSync throws; the error is logged and the folder
\* stays.
cleanupOldReports(dirs, currentName, stuck) ==
  [d \in {e \in DOMAIN dirs :
            ~(StartsWith(e, "report-") /\ e # currentName /\ e \notin stuck)} |-> dirs[d]]

\* ensureDirectoryExists(dirPath) for a folder of the output base directory:
\* the folders afterwards, when mkdirSync succeeds.
ensureDirectoryExists(dirs, name, currentName, stuck) ==
  LET kept == cleanupOldReports(dirs, currentName, stuck)
  IN IF name \in DOMAIN kept
       THEN kept
       ELSE [d \in DOMAIN kept \cup {name} |-> IF d = name THEN NoFile ELSE kept[d]]

\* A folder of an earlier run, with the summary that run left in it.
StaleFolder == "report-prod-local-2024-12-31_23-59"
StaleFolder2 == "report-staging-lambdatest-2024-12-30_08-15"
StaleSummary ==
  JsonStringify(Obj(<< <<"name", Str("an earlier test")>>, <<"status", Str("FAILED")>> >>))

----------------------------------------------------------------------------
(* ReportingUtils *)

\* The attachment testInfo.attach(name, {body, contentType}) adds.
Attachment(name, contentType, body) ==
  [name |-> name, contentType |-> contentType, body |-> body]

attachJson(name, content) == Attachment(name, "application/json", JsonStringify(content))

attachText(name, content) == Attachment(name, "text/plain", [j |-> "text", text |-> content])

attachPng(name) == Attachment(name, "image/png", [j |-> "png", text |-> ""])

\* title.replace(/[^a-zA-Z0-9]/g, '_')
AlphaNumeric ==
  { SubSeq("abcdefghijklmnopqrstuvwxyzABCDEFGHIJKLMNOPQRSTUVWXYZ0123456789", i, i) : i \in 1..62 }

RECURSIVE ReplaceNonAlphaNumeric(_)
ReplaceNonAlphaNumeric(str) ==
  IF Len(str) = 0 THEN ""
  ELSE (IF SubSeq(str, 1, 1) \in AlphaNumeric THEN SubSeq(str, 1, 1) ELSE "_")
         \o ReplaceNonAlphaNumeric(SubSeq(str, 2, Len(str)))

generateTimestampedScreenshotName(title, suffix, c) ==
  "screenshot_" \o ReplaceNonAlphaNumeric(title) \o "_" \o generateTimestamp(c)
     \o (IF suffix # "" THEN "_" \o suffix ELSE "") \o ".png"

\* The object saveTestSummary writes: the summary with generatedAt, timestamp
\* and reportFolder added or overridden.
\* A faulty variant of the object saveTestSummary writes: the minute stamp is
\* stored under the key "status" and shadows the summary's own.
timestampedSummaryShadows(summary, c, reportFolder) ==
  Spread(summary, Obj(<< <<"generatedAt", Str(toISOString(c))>>,
                         <<"status", Str(generateTimestamp(c))>>,
                         <<"reportFolder", Str(reportFolder)>> >>))

timestampedSummary(summary, c, reportFolder) ==
  Spread(summary, Obj(<< <<"generatedAt", Str(toISOString(c))>>,
                         <<"timestamp", Str(generateTimestamp(c))>>,
                         <<"reportFolder", Str(reportFolder)>> >>))

\* A faulty variant of saveTestSummary: no try/catch, a file-system error escapes.
saveTestSummaryUnguarded(summary, fs, envTs, staticTs, c, dirs, env, lambda) ==
  LET ts      == getRunTimestamp(envTs, staticTs, c)
      name    == ReportFolderName("report", env, lambda, ts.value)
      folder  == generateCurrentReportFolder(env, lambda, ts.value)
      cleaned == cleanupOldReports(dirs, name, {})
      mkdirThrows == fs = "mkdirThrows" /\ name \notin DOMAIN cleaned
      ensured == ensureDirectoryExists(dirs, name, name, {})
      text    == JsonStringify(timestampedSummary(summary, c, folder))
  IN IF mkdirThrows
       THEN [env |-> ts.env, static |-> ts.static, dirs |-> cleaned,
             written |-> FALSE, raised |-> TRUE, folder |-> name]
     ELSE IF fs = "writeThrows"
       THEN [env |-> ts.env, static |-> ts.static, dirs |-> ensured,
             written |-> FALSE, raised |-> TRUE, folder |-> name]
     ELSE [env |-> ts.env, static |-> ts.static,
           dirs |-> [ensured EXCEPT ![name] = text],
           written |-> TRUE, raised |-> FALSE, folder |-> name]

\* saveTestSummary(summary): the run timestamp and the folders it leaves, whether
\* the file was written, and whether an error escaped.  fs is what the file
\* system does: mkdirSync throwing, writeFileSync throwing, or neither.
saveTestSummary(summary, fs, envTs, staticTs, c, dirs, env, lambda) ==
  LET ts      == getRunTimestamp(envTs, staticTs, c)
      name    == ReportFolderName("report", env, lambda, ts.value)
      folder  == generateCurrentReportFolder(env, lambda, ts.value)
      cleaned == cleanupOldReports(dirs, name, {})
      mkdirThrows == fs = "mkdirThrows" /\ name \notin DOMAIN cleaned
      ensured == ensureDirectoryExists(dirs, name, name, {})
      text    == JsonStringify(timestampedSummary(summary, c, folder))
  IN IF mkdirThrows
       THEN [env |-> ts.env, static |-> ts.static, dirs |-> cleaned,
             written |-> FALSE, raised |-> FALSE, folder |-> name]
     ELSE IF fs = "writeThrows"
       THEN [env |-> ts.env, static |-> ts.static, dirs |-> ensured,
             written |-> FALSE, raised |-> FALSE, folder |-> name]
     ELSE [env |-> ts.env, static |-> ts.static,
           dirs |-> [ensured EXCEPT ![name] = text],
           written |-> TRUE, raised |-> FALSE, folder |-> name]

----------------------------------------------------------------------------
(* TestExecutionHelper: the status record and the step wrappers *)

NoStartTime == 0 - 1                     \* testStartTime before initializeTest

TestTitle(destination) == "Verify hotel funnel check - " \o destination
TestFile    == "tests/hotel_e2e.spec.ts"
ProjectName == "chromium"

createTestStatus == [success |-> FALSE, failureReason |-> "", currentStep |-> ""]

ClosingStepLabel == "Test completed successfully"

\* A faulty variant of the failure text: the step's name is left out.
FailureReasonTextNoName(stepName, message) == "Failed: " \o message

\* `Failed at step '${stepName}': ${error.message}`
FailureReasonText(stepName, message) ==
  "Failed at step '" \o stepName \o "': " \o message

StepFunctionRequired(method) ==
  "stepFunction is required when providing testStatus. Usage: " \o method
     \o "(stepName, testStatus, stepFunction)"

SetOfUndefined == "Cannot set properties of undefined (setting 'currentStep')"
ReadOfUndefined == "Cannot read properties of undefined (reading 'failureReason')"

\* The result of a call: the target record afterwards, whether an error was
\* raised to the caller and its message, the value returned, and whether the
\* step function was invoked.
Returned(st, value, ran) ==
  [status |-> st, raised |-> FALSE, error |-> "", ret |-> value, ran |-> ran,
   seen |-> NoStatus]

Raised(st, message, ran) ==
  [status |-> st, raised |-> TRUE, error |-> message, ret |-> Undefined, ran |-> ran,
   seen |-> NoStatus]

\* The call invoked the step function, which found the record as in seen.
Invoked(seen, result) == [result EXCEPT !.seen = seen]

\* A faulty variant of executeStep: the catch block records the failure but
\* does not rethrow.
executeStepSwallows(st, stepName, hasFn, outcome) ==
  IF ~hasFn THEN Raised(st, StepFunctionRequired("executeStep"), FALSE)
  ELSE IF st = NoStatus THEN Raised(st, SetOfUndefined, FALSE)
  ELSE LET named == [st EXCEPT !.currentStep = stepName]
       IN IF outcome.threw
            THEN Returned([named EXCEPT !.failureReason =
                                           FailureReasonText(stepName, outcome.message)],
                          Undefined, TRUE)
            ELSE Returned(named, outcome.value, TRUE)

\* A faulty variant of executeStep: the step name is stored before the
\* arguments are validated.
executeStepNamesFirst(st, stepName, hasFn, outcome) ==
  IF st = NoStatus THEN Raised(st, SetOfUndefined, FALSE)
  ELSE LET named == [st EXCEPT !.currentStep = stepName]
       IN IF ~hasFn THEN Raised(named, StepFunctionRequired("executeStep"), FALSE)
          ELSE IF outcome.threw
            THEN Raised([named EXCEPT !.failureReason =
                                         FailureReasonText(stepName, outcome.message)],
                        outcome.message, TRUE)
            ELSE Returned(named, outcome.value, TRUE)

\* A faulty variant of executeStep: the step name is stored once the step
\* function has finished.
executeStepNamesLate(st, stepName, hasFn, outcome) ==
  IF ~hasFn THEN Raised(st, StepFunctionRequired("executeStep"), FALSE)
  ELSE IF st = NoStatus THEN Raised(st, SetOfUndefined, FALSE)
  ELSE LET named == [st EXCEPT !.currentStep = stepName]
       IN Invoked(st,
                  IF outcome.threw
                    THEN Raised([named EXCEPT !.failureReason =
                                                 FailureReasonText(stepName, outcome.message)],
                                outcome.message, TRUE)
                    ELSE Returned(named, outcome.value, TRUE))

\* A faulty variant of executeStep: a step that succeeds clears the failure
\* reason an earlier step left in the record.
executeStepClearsFailure(st, stepName, hasFn, outcome) ==
  IF ~hasFn THEN Raised(st, StepFunctionRequired("executeStep"), FALSE)
  ELSE IF st = NoStatus THEN Raised(st, SetOfUndefined, FALSE)
  ELSE LET named == [st EXCEPT !.currentStep = stepName]
       IN Invoked(named,
                  IF outcome.threw
                    THEN Raised([named EXCEPT !.failureReason =
                                                 FailureReasonText(stepName, outcome.message)],
                                outcome.message, TRUE)
                    ELSE Returned([named EXCEPT !.failureReason = ""], outcome.value, TRUE))

\* executeStep on target record st.  hasFn is false when the explicit form is
\* used without a step function; outcome is what the step function does.
executeStep(st, stepName, hasFn, outcome) ==
  IF ~hasFn THEN Raised(st, StepFunctionRequired("executeStep"), FALSE)
  ELSE IF st = NoStatus THEN Raised(st, SetOfUndefined, FALSE)
  ELSE LET named == [st EXCEPT !.currentStep = stepName]
       IN Invoked(named,
                  IF outcome.threw
                    THEN Raised([named EXCEPT !.failureReason =
                                                 FailureReasonText(stepName, outcome.message)],
                                outcome.message, TRUE)
                    ELSE Returned(named, outcome.value, TRUE))

\* A faulty variant of executeOptionalStep: the catch block returns nothing.
executeOptionalStepNoDefault(st, stepName, hasFn, outcome, defaultValue) ==
  IF ~hasFn THEN Raised(st, StepFunctionRequired("executeOptionalStep"), FALSE)
  ELSE IF st = NoStatus THEN Raised(st, SetOfUndefined, FALSE)
  ELSE LET named == [st EXCEPT !.currentStep = stepName]
       IN IF outcome.threw
            THEN Returned(named, Undefined, TRUE)
            ELSE Returned(named, outcome.value, TRUE)

\* A faulty variant of executeOptionalStep: the catch block records the failure
\* in the status record as executeStep does.
executeOptionalStepRecordsFailure(st, stepName, hasFn, outcome, defaultValue) ==
  IF ~hasFn THEN Raised(st, StepFunctionRequired("executeOptionalStep"), FALSE)
  ELSE IF st = NoStatus THEN Raised(st, SetOfUndefined, FALSE)
  ELSE LET named == [st EXCEPT !.currentStep = stepName]
       IN IF outcome.threw
            THEN Returned([named EXCEPT !.failureReason =
                                           FailureReasonText(stepName, outcome.message)],
                          defaultValue, TRUE)
            ELSE Returned(named, outcome.value, TRUE)

\* executeOptionalStep on target record st.
executeOptionalStep(st, stepName, hasFn, outcome, defaultValue) ==
  IF ~hasFn THEN Raised(st, StepFunctionRequired("executeOptionalStep"), FALSE)
  ELSE IF st = NoStatus THEN Raised(st, SetOfUndefined, FALSE)
  ELSE LET named == [st EXCEPT !.currentStep = stepName]
       IN Invoked(named,
                  IF outcome.threw
                    THEN Returned(named, defaultValue, TRUE)
                    ELSE Returned(named, outcome.value, TRUE))

\* A faulty variant of the marking: the failure reason is not consulted.
markSuccessfulAlways(st) ==
  IF ~st.success
    THEN [st EXCEPT !.success = TRUE, !.currentStep = ClosingStepLabel]
    ELSE st

\* A faulty variant of the marking: a record already successful is relabelled.
markSuccessfulRelabels(st) ==
  IF st.failureReason = ""
    THEN [st EXCEPT !.success = TRUE, !.currentStep = ClosingStepLabel]
    ELSE st

\* finalizeTest, "mark as successful if no errors occurred and not explicitly set".
markSuccessful(st) ==
  IF st.failureReason = "" /\ ~st.success
    THEN [st EXCEPT !.success = TRUE, !.currentStep = ClosingStepLabel]
    ELSE st

\* page.isClosed() of each kind of handle.
isClosed(p) ==
  CASE p = "open"           -> [value |-> FALSE, threw |-> FALSE]
    [] p = "closed"         -> [value |-> TRUE,  threw |-> FALSE]
    [] p = "isClosedThrows" -> [value |-> FALSE, threw |-> TRUE]
    [] OTHER                -> [value |-> FALSE, threw |-> TRUE]

\* A faulty variant of isPageValid: no try/catch around page.isClosed().
isPageValidUnguarded(p) ==
  IF p = "null" THEN [valid |-> FALSE, threw |-> FALSE]
  ELSE IF p = "noIsClosed" THEN [valid |-> FALSE, threw |-> FALSE]
  ELSE IF isClosed(p).threw THEN [valid |-> FALSE, threw |-> TRUE]
  ELSE [valid |-> ~isClosed(p).value, threw |-> FALSE]

\* isPageValid(page): page !== null && typeof page.isClosed === 'function' &&
\* !page.isClosed(), any exception read as "not valid".
isPageValid(p) ==
  IF p = "null" THEN [valid |-> FALSE, threw |-> FALSE]
  ELSE IF p = "noIsClosed" THEN [valid |-> FALSE, threw |-> FALSE]
  ELSE IF isClosed(p).threw THEN [valid |-> FALSE, threw |-> FALSE]
  ELSE [valid |-> ~isClosed(p).value, threw |-> FALSE]

PageIsTruthy(p) == p # "null"

\* The test summary finalizeTest builds from the final status record.
durationSeconds(start, c) ==
  IF start = NoStartTime THEN "NaN" ELSE ToString((c - start) * 30) \o ".0"

testSummary(st, title, start, c, environment, lambda, data) ==
  Obj(<< <<"name", Str(title)>>,
         <<"status", Str(IF st.success THEN "PASSED" ELSE "FAILED")>>,
         <<"failureReason", Str(st.failureReason)>>,
         <<"duration", Str(durationSeconds(start, c) \o " seconds")>>,
         <<"durationMs", IF start = NoStartTime THEN NaN ELSE Num((c - start) * TickMs)>>,
         <<"currentStep", Str(st.currentStep)>>,
         <<"timestamp", Str(toISOString(c))>>,
         <<"environment", Str(environment)>>,
         <<"platform", Str(IF lambda THEN "LambdaTest" ELSE "Local")>>,
         <<"browser", Str(ProjectName)>>,
         <<"testData", data>> >>)

\* markLambdaTestStatus(page, passed): the status marks sent to the grid.
\* gridOk is false when page.evaluate throws (caught, nothing is marked).
markLambdaTestStatus(p, passed, gridOk) ==
  IF isPageValid(p).valid /\ ~isPageValid(p).threw /\ gridOk
    THEN << IF passed THEN "passed" ELSE "failed" >>
    ELSE <<>>

\* markTestStatus(page, passed)
markTestStatus(p, passed, lambda, gridOk) ==
  IF lambda THEN markLambdaTestStatus(p, passed, gridOk) ELSE <<>>

\* A faulty variant of the success screenshot: no try/catch around the capture.
successScreenshotUnguarded(st, p, shot, title, c) ==
  IF st.success /\ PageIsTruthy(p)
    THEN IF isPageValid(p).threw THEN [attached |-> <<>>, shots |-> 0, threw |-> TRUE, raised |-> TRUE]
         ELSE IF ~isPageValid(p).valid THEN [attached |-> <<>>, shots |-> 0, threw |-> FALSE, raised |-> FALSE]
         ELSE IF shot = "captureThrows" THEN [attached |-> <<>>, shots |-> 1, threw |-> TRUE, raised |-> TRUE]
         ELSE IF shot = "attachThrows" THEN [attached |-> <<>>, shots |-> 1, threw |-> TRUE, raised |-> TRUE]
         ELSE [attached |-> << attachPng(generateTimestampedScreenshotName(title, "final_success", c)) >>,
               shots |-> 1, threw |-> FALSE, raised |-> FALSE]
    ELSE [attached |-> <<>>, shots |-> 0, threw |-> FALSE, raised |-> FALSE]

\* The success screenshot of finalizeTest: what is attached.  Nothing escapes.
successScreenshot(st, p, shot, title, c) ==
  IF st.success /\ PageIsTruthy(p)
    THEN IF isPageValid(p).threw THEN [attached |-> <<>>, shots |-> 0, threw |-> TRUE, raised |-> FALSE]
         ELSE IF ~isPageValid(p).valid THEN [attached |-> <<>>, shots |-> 0, threw |-> FALSE, raised |-> FALSE]
         ELSE IF shot = "captureThrows" THEN [attached |-> <<>>, shots |-> 1, threw |-> TRUE, raised |-> FALSE]
         ELSE IF shot = "attachThrows" THEN [attached |-> <<>>, shots |-> 1, threw |-> TRUE, raised |-> FALSE]
         ELSE [attached |-> << attachPng(generateTimestampedScreenshotName(title, "final_success", c)) >>,
               shots |-> 1, threw |-> FALSE, raised |-> FALSE]
    ELSE [attached |-> <<>>, shots |-> 0, threw |-> FALSE, raised |-> FALSE]

ScreenshotErrorText(shot) ==
  IF shot = "captureThrows" THEN "page.screenshot: Target closed"
  ELSE IF shot = "attachThrows" THEN "testInfo.attach: attachment failed"
  ELSE "page.isClosed is not available"

\* takeFailureScreenshot(testInfo, page): what is attached, how many screenshots
\* were attempted, and whether an error escaped.
takeFailureScreenshot(p, shot) ==
  LET onError(n) ==
        [attached |-> << attachText("screenshot-error",
                                    "Screenshot capture failed: " \o ScreenshotErrorText(shot)) >>,
         shots |-> n, raised |-> FALSE]
  IN IF isPageValid(p).threw THEN onError(0)
     ELSE IF isPageValid(p).valid
       THEN IF shot = "ok"
              THEN [attached |-> << attachPng("failure-screenshot") >>,
                    shots |-> 1, raised |-> FALSE]
              ELSE onError(1)
       ELSE [attached |-> << attachText("failure-note",
                 "Screenshot could not be captured - page was closed or unavailable") >>,
             shots |-> 0, raised |-> FALSE]

----------------------------------------------------------------------------
(* The operations as steps of the state machine *)

\* What a call leaves for its caller and for the report.
NoCall ==
  [op |-> "none", form |-> "none", stepName |-> "", hasFn |-> TRUE, ran |-> FALSE,
   threw |-> FALSE, default |-> Undefined, raised |-> FALSE, error |-> "",
   ret |-> Undefined, attached |-> <<>>, marks |-> <<>>, shots |-> 0,
   summary |-> Obj(<<>>), written |-> FALSE, folder |-> "", fs |-> "ok", shot |-> "ok",
   page |-> "null", data |-> Obj(<<>>), worker |-> "", listing |-> {}, stuck |-> {},
   trail |-> <<>>, seen |-> NoStatus, arg |-> "", read |-> FALSE, content |-> NoContent,
   maxRetries |-> 0]

\* The record a call acts on: the one passed explicitly, or the process-wide one.
Target(form) == IF form = "explicit" THEN callerStatus ELSE testStatus

\* A faulty variant of the store: both records receive the result.
SetTargetBoth(form, st) == callerStatus' = st /\ testStatus' = st

SetTarget(form, st) ==
  IF form = "explicit"
    THEN callerStatus' = st /\ UNCHANGED testStatus
    ELSE testStatus' = st /\ UNCHANGED callerStatus

\* initializeTest(testInfo, testData)
InitializeTest(title, data) ==
  LET ts     == getRunTimestamp(envRunTimestamp, runTimestamp, clock)
      folder == generateCurrentReportFolder(testEnv, useLambdaTest, ts.value)
      metadata ==
        Obj(<< <<"testTitle", Str(title)>>,
               <<"testFile", Str(TestFile)>>,
               <<"startTime", Str(toISOString(clock))>>,
               <<"environment", Str(IF testEnv # "" THEN testEnv ELSE "prod")>>,
               <<"platform", Str(IF useLambdaTest THEN "LambdaTest" ELSE "Local")>>,
               <<"browser", Str(ProjectName)>>,
               <<"timestamp", Str(generateTimestamp(clock))>>,
               <<"reportPaths", Obj(<< <<"reportFolder", Str(folder)>>,
                                       <<"timestamp", Str(ts.value)>> >>)>> >>)
  IN /\ testStartTime' = clock
     /\ testStatus' = createTestStatus
     /\ testData' = data
     /\ envRunTimestamp' = ts.env
     /\ runTimestamp' = ts.static
     /\ out' = [NoCall EXCEPT !.op = "initializeTest", !.form = "global", !.data = data,
                              !.attached = << attachJson("Test Metadata", metadata),
                                              attachJson("Test Data", data) >>]
     /\ UNCHANGED << fsDirs, callerStatus >>

\* initializeTest(testInfo, testData) when testInfo.attach raises in
\* attachTestMetadata: the start time, the status record and the test data are
\* already assigned, nothing is attached and the error leaves initializeTest.
InitializeTestAttachFails(title, data) ==
  \E ts \in { getRunTimestamp(envRunTimestamp, runTimestamp, clock) } :
     /\ testStartTime' = clock
     /\ testStatus' = createTestStatus
     /\ testData' = data
     /\ envRunTimestamp' = ts.env
     /\ runTimestamp' = ts.static
     /\ out' = [NoCall EXCEPT !.op = "initializeTest", !.form = "global", !.data = data,
                              !.raised = TRUE, !.error = ScreenshotErrorText("attachThrows")]
     /\ UNCHANGED << fsDirs, callerStatus >>

\* executeStep(stepName, stepFunction) and executeStep(stepName, testStatus, stepFunction)
ExecuteStep(form, stepName, hasFn, outcome) ==
  \E r \in { executeStep(Target(form), stepName, hasFn, outcome) } :
     /\ SetTarget(form, r.status)
     /\ out' = [NoCall EXCEPT !.op = "executeStep", !.form = form, !.stepName = stepName,
                              !.hasFn = hasFn, !.ran = r.ran, !.threw = r.ran /\ outcome.threw,
                              !.raised = r.raised, !.error = r.error, !.ret = r.ret,
                              !.seen = r.seen,
                              !.trail = IF r.ran /\ "trail" \in DOMAIN outcome
                                          THEN outcome.trail ELSE <<>>]
     /\ UNCHANGED << envRunTimestamp, runTimestamp, fsDirs, testStartTime, testData >>

\* executeOptionalStep, in both call shapes
ExecuteOptionalStep(form, stepName, hasFn, outcome, defaultValue) ==
  \E r \in { executeOptionalStep(Target(form), stepName, hasFn, outcome, defaultValue) } :
     /\ SetTarget(form, r.status)
     /\ out' = [NoCall EXCEPT !.op = "executeOptionalStep", !.form = form,
                              !.stepName = stepName, !.hasFn = hasFn, !.ran = r.ran,
                              !.threw = r.ran /\ outcome.threw, !.default = defaultValue,
                              !.raised = r.raised, !.error = r.error, !.ret = r.ret,
                              !.seen = r.seen]
     /\ UNCHANGED << envRunTimestamp, runTimestamp, fsDirs, testStartTime, testData >>

\* finalizeTest(testInfo, testStatus, null, testData, page).  preMarks are the grid
\* marks the calling hook sent before it.
FinalizeTest(op, title, form, data, p, fs, shot, gridOk, preMarks) ==
  IF Target(form) = NoStatus
    THEN /\ out' = [NoCall EXCEPT !.op = op, !.form = form, !.raised = TRUE,
                                  !.error = ReadOfUndefined, !.page = p, !.data = data,
                                  !.marks = preMarks]
         /\ UNCHANGED << testStatus, callerStatus, envRunTimestamp, runTimestamp, fsDirs,
                         testStartTime, testData >>
    ELSE \E final \in { markSuccessful(Target(form)) } :
         \E summary \in { testSummary(final, title, testStartTime, clock, getEnvironment,
                                      useLambdaTest, data) } :
         \E saved \in { saveTestSummary(summary, fs, envRunTimestamp, runTimestamp, clock,
                                        fsDirs, testEnv, useLambdaTest) } :
         \E pic \in { successScreenshot(final, p, shot, title, clock) } :
         LET marks == IF PageIsTruthy(p) /\ useLambdaTest
                        THEN markLambdaTestStatus(p, final.success, gridOk) ELSE <<>>
         IN /\ SetTarget(form, final)
            /\ envRunTimestamp' = saved.env
            /\ runTimestamp' = saved.static
            /\ fsDirs' = saved.dirs
            /\ out' = [NoCall EXCEPT
                         !.op = op, !.form = form, !.page = p, !.data = data, !.fs = fs,
                         !.shot = shot, !.summary = summary, !.written = saved.written,
                         !.folder = saved.folder,
                         !.marks = preMarks \o marks,
                         !.raised = saved.raised \/ pic.raised,
                         !.error = IF saved.raised THEN "saveTestSummary failed"
                                   ELSE IF pic.raised THEN ScreenshotErrorText(shot) ELSE "",
                         !.shots = IF saved.raised THEN 0 ELSE pic.shots,
                         !.attached =
                            IF saved.raised THEN <<>>
                            ELSE << attachJson("Test Summary", summary) >> \o pic.attached]
            /\ UNCHANGED << testStartTime, testData >>

\* takeFailureScreenshot(testInfo, page)
TakeFailureScreenshot(op, p, shot, preMarks) ==
  \E r \in { takeFailureScreenshot(p, shot) } :
     /\ out' = [NoCall EXCEPT !.op = op, !.page = p, !.shot = shot, !.raised = r.raised,
                              !.attached = r.attached, !.shots = r.shots,
                              !.marks = preMarks]
     /\ UNCHANGED << testStatus, callerStatus, envRunTimestamp, runTimestamp, fsDirs,
                     testStartTime, testData >>

----------------------------------------------------------------------------
(* Worker processes of one run *)

WorkerIds == {"worker-1", "worker-2"}

\* getTestResultsDir(), with PLAYWRIGHT_RESULTS_DIR unset
TestResultsDir == "test-results"

\* A faulty variant of the store: one record is shared by all the workers.
StoreStatusShared(ws, w, st) == [v \in DOMAIN ws |-> [ws[v] EXCEPT !.status = st]]

\* The static state of a module is per process: a write by worker w to its
\* TestExecutionHelper.testStatus reaches no other worker.
StoreStatus(ws, w, st) == [ws EXCEPT ![w].status = st]

\* A worker process: the PLAYWRIGHT_RUN_TIMESTAMP of its environment, its
\* ReporterManager.runTimestamp, the folder path generateCurrentReportFolder
\* last returned in it and the clock at that call, and its
\* TestExecutionHelper.testStatus with whether a test is in progress.
NotSpawned ==
  [spawned |-> FALSE, envTs |-> "", staticTs |-> "", folder |-> "", at |-> NoStartTime,
   status |-> NoStatus, inTest |-> FALSE, steps |-> 0]

----------------------------------------------------------------------------
(* The test body of tests/hotel_e2e.spec.ts: its steps in order *)

BodySteps == <<
  [name |-> "Navigate to homepage",                 optional |-> FALSE, payment |-> FALSE],
  [name |-> "Handle initial popups",                optional |-> TRUE,  payment |-> FALSE],
  [name |-> "Navigate to Hotels tab",               optional |-> FALSE, payment |-> FALSE],
  [name |-> "Set destination",                      optional |-> FALSE, payment |-> FALSE],
  [name |-> "Set dates",                            optional |-> FALSE, payment |-> FALSE],
  [name |-> "Perform search",                       optional |-> FALSE, payment |-> FALSE],
  [name |-> "Verify search results",                optional |-> FALSE, payment |-> FALSE],
  [name |-> "Select hotel and navigate to details", optional |-> FALSE, payment |-> FALSE],
  [name |-> "Select room and rate plan",            optional |-> FALSE, payment |-> FALSE],
  [name |-> "Fill guest details",                   optional |-> FALSE, payment |-> FALSE],
  [name |-> "Verify payment page",                  optional |-> FALSE, payment |-> FALSE],
  [name |-> "Enter payment details",                optional |-> FALSE, payment |-> TRUE] >>

StepNames == { BodySteps[i].name : i \in 1..Len(BodySteps) }

\* The fixed-count retry loops inside step functions: the attempts allowed,
\* whether the step function does other work before and after the loop, and
\* what the loop logs on every failed attempt, before a retry, and when the
\* attempts are used up ("" for nothing).
RetryLoops ==
  [n \in {"Perform search", "Select room and rate plan", "Fill guest details"} |->
     CASE n = "Perform search" ->
            [max |-> 3, before |-> FALSE, after |-> FALSE,
             onFail |-> "Search attempt failed", onRetry |-> "Retrying search in 2 seconds...",
             onExhausted |-> ""]
       [] n = "Select room and rate plan" ->
            [max |-> 3, before |-> TRUE, after |-> TRUE,
             onFail |-> "", onRetry |-> "Attempt to click Book Now button failed. Retrying...",
             onExhausted |-> "Failed to click Book Now button"]
       [] OTHER ->
            [max |-> 2, before |-> TRUE, after |-> FALSE,
             onFail |-> "", onRetry |-> "Retry for continuing to payment...",
             onExhausted |-> ""]]

\* The error the k-th call of the retried action raises when it fails.
AttemptError(k) == "attempt " \o ToString(k) \o ": Timeout 30000ms exceeded"

\* The error page.waitForTimeout raises when the page has gone.
WaitErrorText == "page.waitForTimeout: Target page, context or browser has been closed"

Logged(text) == IF text = "" THEN <<>> ELSE << text >>

\* A faulty variant of the retry loop: the error raised when the attempts are
\* used up is that of the first attempt.
RECURSIVE retryLoopFirstError(_, _, _, _)
retryLoopFirstError(n, loop, tries, waits) ==
  IF ~tries[n].threw
    THEN [threw |-> FALSE, message |-> "", trail |-> << "try", "ok" >>, logs |-> <<>>]
  ELSE IF n >= loop.max
    THEN [threw |-> TRUE, message |-> tries[1].message, trail |-> << "try", "fail" >>,
          logs |-> Logged(loop.onFail) \o Logged(loop.onExhausted)]
  ELSE IF ~waits[n]
    THEN [threw |-> TRUE, message |-> WaitErrorText,
          trail |-> << "try", "fail", "waitFailed" >>,
          logs |-> Logged(loop.onFail) \o Logged(loop.onRetry)]
  ELSE LET rest == retryLoopFirstError(n + 1, loop, tries, waits)
       IN [rest EXCEPT !.trail = << "try", "fail", "wait" >> \o rest.trail,
                       !.logs = Logged(loop.onFail) \o Logged(loop.onRetry) \o rest.logs]

\* A faulty variant of the retry loop: a failed attempt is retried at once,
\* without the backoff wait.
RECURSIVE retryLoopNoBackoff(_, _, _, _)
retryLoopNoBackoff(n, loop, tries, waits) ==
  IF ~tries[n].threw
    THEN [threw |-> FALSE, message |-> "", trail |-> << "try", "ok" >>, logs |-> <<>>]
  ELSE IF n >= loop.max
    THEN [threw |-> TRUE, message |-> tries[n].message, trail |-> << "try", "fail" >>,
          logs |-> Logged(loop.onFail) \o Logged(loop.onExhausted)]
  ELSE LET rest == retryLoopNoBackoff(n + 1, loop, tries, waits)
       IN [rest EXCEPT !.trail = << "try", "fail" >> \o rest.trail,
                       !.logs = Logged(loop.onFail) \o Logged(loop.onRetry) \o rest.logs]

\* while (attempts < maxAttempts) { try { action; break } catch { attempts++;
\* if (attempts >= maxAttempts) throw error; waitForTimeout(2000) } }, from
\* attempt n on.  tries[k] is what the k-th call of the action does, waits[k]
\* whether the backoff after the k-th failure completes.  The result says
\* whether the loop threw and with what message, the trail of what happened
\* ("try", "ok", "fail", "wait", "waitFailed") and what was logged.
RECURSIVE retryLoop(_, _, _, _)
retryLoop(n, loop, tries, waits) ==
  IF ~tries[n].threw
    THEN [threw |-> FALSE, message |-> "", trail |-> << "try", "ok" >>, logs |-> <<>>]
  ELSE IF n >= loop.max
    THEN [threw |-> TRUE, message |-> tries[n].message, trail |-> << "try", "fail" >>,
          logs |-> Logged(loop.onFail) \o Logged(loop.onExhausted)]
  ELSE IF ~waits[n]
    THEN [threw |-> TRUE, message |-> WaitErrorText,
          trail |-> << "try", "fail", "waitFailed" >>,
          logs |-> Logged(loop.onFail) \o Logged(loop.onRetry)]
  ELSE LET rest == retryLoop(n + 1, loop, tries, waits)
       IN [rest EXCEPT !.trail = << "try", "fail", "wait" >> \o rest.trail,
                       !.logs = Logged(loop.onFail) \o Logged(loop.onRetry) \o rest.logs]

\* The step function of a step with a retry loop: the work before the loop,
\* the loop, the work after it.
retryStepFunction(loop, pre, post, tries, waits) ==
  IF loop.before /\ pre.threw
    THEN [threw |-> TRUE, value |-> Undefined, message |-> pre.message,
          trail |-> <<>>, logs |-> <<>>]
  ELSE LET r == retryLoop(1, loop, tries, waits)
       IN IF ~r.threw /\ loop.after /\ post.threw
            THEN [threw |-> TRUE, value |-> Undefined, message |-> post.message,
                  trail |-> r.trail, logs |-> r.logs]
            ELSE [threw |-> r.threw, value |-> Undefined, message |-> r.message,
                  trail |-> r.trail, logs |-> r.logs]

\* The inputs of a retry step that differ in what the step function does:
\* nothing is drawn for a call that is never made.
RetryInputs(loop) ==
  LET Tries == { [k \in 1..loop.max |->
                    IF fails[k]
                      THEN [threw |-> TRUE, value |-> Undefined, message |-> AttemptError(k)]
                      ELSE [threw |-> FALSE, value |-> "done", message |-> ""]] :
                  fails \in [1..loop.max -> BOOLEAN] }
      Waits == [1..loop.max -> BOOLEAN]
      Rest  == { o \in StepOutcomes : o.threw => o.message # "" }
      made(tries, waits, k) ==
        \A j \in 1..(k - 1) : tries[j].threw /\ waits[j]
  IN { i \in [pre : Rest, post : Rest, tries : Tries, waits : Waits] :
         /\ ~loop.before => ~i.pre.threw
         /\ ~loop.after => ~i.post.threw
         /\ i.pre.threw => (~i.post.threw /\ \A k \in 1..loop.max :
                                                ~i.tries[k].threw /\ i.waits[k])
         /\ \A k \in 1..loop.max :
               /\ ~made(i.tries, i.waits, k) => (~i.tries[k].threw /\ i.waits[k])
               /\ (~i.tries[k].threw \/ k = loop.max) => i.waits[k]
         /\ i.post.threw => \E k \in 1..loop.max :
                                made(i.tries, i.waits, k) /\ ~i.tries[k].threw }

----------------------------------------------------------------------------
(* SpecApi: a caller invoking the operations in any order *)

\* The process environment and the output directory a run starts with.
EnvProfiles ==
  { [testEnv |-> "", lambda |-> FALSE, runTs |-> "",
     dirs |-> [d \in {StaleFolder} |-> StaleSummary]],
    [testEnv |-> "staging", lambda |-> TRUE, runTs |-> "2025-01-01_09-59",
     dirs |-> [d \in {} |-> NoFile]] }

Forms == {"global", "explicit"}

ApiTitle == TestTitle(Destinations[1])

\* The name of the step a caller runs as its n-th operation.
ApiStepName == BodySteps[(calls % Len(BodySteps)) + 1].name

\* Outcomes of the step functions a caller passes.
ApiOutcomes == { o \in StepOutcomes : o.threw => o.message # "" }

ApiTestData == { Obj(<<>>),
                 Obj(<< <<"destination", Str(Destinations[1])>>, <<"skipPayment", Bool(FALSE)>> >>) }

\* The state of the modules when the process has loaded them.
InitState ==
  /\ currentEnv = ConfigManagerConstructor(testEnv)
  /\ runTimestamp = ""
  /\ clock = 0
  /\ testStartTime = NoStartTime
  /\ testStatus = NoStatus
  /\ out = NoCall
  /\ calls = 0
  /\ testData = Obj(<<>>)
  /\ stepIdx = 1
  /\ testIdx = 1
  /\ executed = <<>>
  /\ events = <<>>
  /\ caught = NoError
  /\ runnerError = NoError
  /\ workers = [w \in WorkerIds |-> NotSpawned]
  /\ testDataCache = << >>
  /\ heap = << >>

InitCommon ==
  /\ \E prof \in EnvProfiles :
        /\ testEnv = prof.testEnv
        /\ useLambdaTest = prof.lambda
        /\ envRunTimestamp = prof.runTs
        /\ fsDirs = prof.dirs
  /\ dataFiles = DefaultFiles
  /\ InitState

\* The caller holds a record it made with createTestStatus().
InitApi ==
  /\ InitCommon
  /\ callerStatus = createTestStatus
  /\ pc = "api"
  /\ page = "null"
  /\ skipPayment = FALSE

Called ==
  /\ calls < MaxCalls
  /\ calls' = calls + 1
  /\ UNCHANGED << envVars, bodyVars, clock, workers, dataVars >>

ApiCreateTestStatus ==
  /\ Called
  /\ callerStatus' = createTestStatus
  /\ out' = [NoCall EXCEPT !.op = "createTestStatus", !.form = "explicit"]
  /\ UNCHANGED << testStatus, envRunTimestamp, runTimestamp, fsDirs, testStartTime, testData >>

ApiInitializeTest ==
  /\ Called
  /\ \E data \in ApiTestData : InitializeTest(ApiTitle, data)

ApiExecuteStep ==
  /\ Called
  /\ \E form \in Forms, hasFn \in BOOLEAN, outcome \in ApiOutcomes :
        /\ form = "global" => hasFn
        /\ form = "explicit" => callerStatus # NoStatus
        /\ ExecuteStep(form, ApiStepName, hasFn, outcome)

ApiExecuteOptionalStep ==
  /\ Called
  /\ \E form \in Forms, hasFn \in BOOLEAN, outcome \in ApiOutcomes, d \in DefaultValues :
        /\ form = "global" => hasFn
        /\ form = "explicit" => callerStatus # NoStatus
        /\ (~hasFn \/ ~outcome.threw) => d = Undefined
        /\ ExecuteOptionalStep(form, ApiStepName, hasFn, outcome, d)

ApiFinalizeTest ==
  /\ Called
  /\ \E form \in Forms, p \in PageKinds, fs \in FsOutcomes,
        shot \in ShotOutcomes, gridOk \in BOOLEAN :
        /\ form = "explicit" => callerStatus # NoStatus
        /\ shot # "ok" => p = "open"
        /\ ~gridOk => (useLambdaTest /\ p = "open")
        /\ FinalizeTest("finalizeTest", ApiTitle, form, testData, p, fs, shot, gridOk, <<>>)

ApiTakeFailureScreenshot ==
  /\ Called
  /\ \E p \in PageKinds, shot \in ShotOutcomes :
        /\ shot # "ok" => p = "open"
        /\ TakeFailureScreenshot("takeFailureScreenshot", p, shot, <<>>)

NextApi ==
  \/ ApiCreateTestStatus
  \/ ApiInitializeTest
  \/ ApiExecuteStep
  \/ ApiExecuteOptionalStep
  \/ ApiFinalizeTest
  \/ ApiTakeFailureScreenshot

SpecApi == InitApi /\ [][NextApi]_vars

----------------------------------------------------------------------------
(* Spec: the body of the test "Verify hotel funnel check - <destination>" *)

BodyTitle == TestTitle(Destinations[testIdx])

BodyTestData ==
  Obj(<< <<"destination", Str(Destinations[testIdx])>>, <<"skipPayment", Bool(skipPayment)>> >>)

Init ==
  /\ InitCommon
  /\ callerStatus = NoStatus
  /\ pc = "start"
  /\ page = "open"
  /\ skipPayment \in BOOLEAN

\* What every step of the body leaves alone.
BodyFrame == UNCHANGED << envVars, clock, calls, skipPayment, testIdx, workers, dataVars >>

\* try { await TestExecutionHelper.beforeEach(testInfo, testData)
BeforeEach ==
  /\ pc = "start"
  /\ \E i \in 1..Len(Destinations) :
        /\ testIdx' = i
        /\ InitializeTest(TestTitle(Destinations[i]),
                          Obj(<< <<"destination", Str(Destinations[i])>>,
                                 <<"skipPayment", Bool(skipPayment)>> >>))
  /\ pc' = "steps"
  /\ stepIdx' = 1
  /\ events' = << "beforeEach" >>
  /\ UNCHANGED << envVars, clock, calls, skipPayment, page, executed, caught, runnerError,
                  workers, dataVars >>

\* try { await TestExecutionHelper.beforeEach(testInfo, testData) raises: control
\* passes to the catch block before any step ran.
BeforeEachFails ==
  /\ pc = "start"
  /\ \E i \in 1..Len(Destinations) :
        /\ testIdx' = i
        /\ InitializeTestAttachFails(TestTitle(Destinations[i]),
                          Obj(<< <<"destination", Str(Destinations[i])>>,
                                 <<"skipPayment", Bool(skipPayment)>> >>))
  /\ pc' = "catch"
  /\ caught' = Err(ScreenshotErrorText("attachThrows"))
  /\ events' = << "beforeEach" >>
  /\ UNCHANGED << envVars, clock, calls, skipPayment, page, stepIdx, executed, runnerError,
                  workers, dataVars >>

StepDue == pc = "steps" /\ stepIdx <= Len(BodySteps)

\* A faulty variant of the payment switch: the flag is not consulted.
SkippedNever(i) == FALSE

\* if (!skipPayment): the payment step is left out when the fixture says so.
Skipped(i) == BodySteps[i].payment /\ skipPayment

\* A mandatory step: test.step(..., () => TestExecutionHelper.executeStep(name, fn))
RunMandatoryStep ==
  /\ StepDue
  /\ ~BodySteps[stepIdx].optional
  /\ ~Skipped(stepIdx)
  /\ BodySteps[stepIdx].name \notin DOMAIN RetryLoops
  /\ \E outcome \in StepOutcomes :
        ExecuteStep("global", BodySteps[stepIdx].name, TRUE, outcome)
  /\ IF out'.raised
       THEN pc' = "catch" /\ caught' = Err(out'.error) /\ UNCHANGED stepIdx
       ELSE stepIdx' = stepIdx + 1 /\ UNCHANGED << pc, caught >>
  /\ executed' = IF out'.ran THEN Append(executed, BodySteps[stepIdx].name) ELSE executed
  /\ events' = IF out'.threw THEN Append(events, "console.error") ELSE events
  /\ BodyFrame
  /\ UNCHANGED << page, runnerError >>

\* A mandatory step whose step function holds a retry loop: 'Perform search',
\* 'Select room and rate plan', 'Fill guest details'.
\* The console lines of the search loop are kept in events for the rest of
\* the test; those of the two later loops are in the trail of the call.
RunRetryStep ==
  /\ StepDue
  /\ BodySteps[stepIdx].name \in DOMAIN RetryLoops
  /\ \E i \in RetryInputs(RetryLoops[BodySteps[stepIdx].name]) :
     \E outcome \in { retryStepFunction(RetryLoops[BodySteps[stepIdx].name],
                                        i.pre, i.post, i.tries, i.waits) } :
        /\ ExecuteStep("global", BodySteps[stepIdx].name, TRUE, outcome)
        /\ events' = events \o (IF out'.ran /\ BodySteps[stepIdx].name = "Perform search"
                                  THEN outcome.logs ELSE <<>>)
                            \o (IF out'.threw THEN << "console.error" >> ELSE <<>>)
  /\ IF out'.raised
       THEN pc' = "catch" /\ caught' = Err(out'.error) /\ UNCHANGED stepIdx
       ELSE stepIdx' = stepIdx + 1 /\ UNCHANGED << pc, caught >>
  /\ executed' = IF out'.ran THEN Append(executed, BodySteps[stepIdx].name) ELSE executed
  /\ BodyFrame
  /\ UNCHANGED << page, runnerError >>

\* The optional step: TestExecutionHelper.executeOptionalStep('Handle initial popups', fn)
RunOptionalStep ==
  /\ StepDue
  /\ BodySteps[stepIdx].optional
  /\ \E outcome \in StepOutcomes :
        ExecuteOptionalStep("global", BodySteps[stepIdx].name, TRUE, outcome, Undefined)
  /\ IF out'.raised
       THEN pc' = "catch" /\ caught' = Err(out'.error) /\ UNCHANGED stepIdx
       ELSE stepIdx' = stepIdx + 1 /\ UNCHANGED << pc, caught >>
  /\ executed' = IF out'.ran THEN Append(executed, BodySteps[stepIdx].name) ELSE executed
  /\ events' = IF out'.threw THEN Append(events, "console.warn") ELSE events
  /\ BodyFrame
  /\ UNCHANGED << page, runnerError >>

\* if (!skipPayment) { ... } else { console.log('Skipping payment details ...') }
SkipPaymentStep ==
  /\ StepDue
  /\ Skipped(stepIdx)
  /\ stepIdx' = stepIdx + 1
  /\ events' = Append(events, "skipPayment")
  /\ BodyFrame
  /\ UNCHANGED << envRunTimestamp, runTimestamp, fsDirs, testStartTime, testStatus,
                  callerStatus, out, testData, page, pc, executed, caught, runnerError >>

\* A hook that only marks the grid status.
MarkOnly(op, marks) ==
  /\ out' = [NoCall EXCEPT !.op = op, !.page = page, !.marks = marks]
  /\ UNCHANGED << envRunTimestamp, runTimestamp, fsDirs, testStartTime, testStatus,
                  callerStatus, testData >>

\* await TestExecutionHelper.markTestPassed(page), after the last step
MarkTestPassed ==
  /\ pc = "steps"
  /\ stepIdx > Len(BodySteps)
  /\ \E gridOk \in BOOLEAN :
        /\ ~gridOk => (useLambdaTest /\ page = "open")
        /\ MarkOnly("markTestPassed", markTestStatus(page, TRUE, useLambdaTest, gridOk))
  /\ pc' = "finally"
  /\ events' = Append(events, "markTestPassed")
  /\ BodyFrame
  /\ UNCHANGED << page, stepIdx, executed, caught, runnerError >>

\* catch (error) { await TestExecutionHelper.markTestFailed(page)
MarkTestFailed ==
  /\ pc = "catch"
  /\ \E gridOk \in BOOLEAN :
        /\ ~gridOk => (useLambdaTest /\ page = "open")
        /\ MarkOnly("markTestFailed", markTestStatus(page, FALSE, useLambdaTest, gridOk))
  /\ pc' = "onFailure"
  /\ events' = Append(events, "markTestFailed")
  /\ BodyFrame
  /\ UNCHANGED << page, stepIdx, executed, caught, runnerError >>

\* await TestExecutionHelper.onFailure(testInfo, page); throw error }
OnFailure ==
  /\ pc = "onFailure"
  /\ \E shot \in ShotOutcomes, gridOk \in BOOLEAN :
        /\ shot # "ok" => page = "open"
        /\ ~gridOk => (useLambdaTest /\ page = "open")
        /\ TakeFailureScreenshot("onFailure", page, shot,
              IF PageIsTruthy(page) /\ useLambdaTest
                THEN markLambdaTestStatus(page, FALSE, gridOk) ELSE <<>>)
  /\ pc' = "finally"
  /\ events' = Append(events, "onFailure")
  /\ BodyFrame
  /\ UNCHANGED << page, stepIdx, executed, caught, runnerError >>

\* finally { await TestExecutionHelper.afterEach(testInfo, page, testData) }
AfterEach ==
  /\ pc = "finally"
  /\ \E fs \in FsOutcomes, shot \in ShotOutcomes, gridOk \in BOOLEAN :
        /\ shot # "ok" => (page = "open" /\ testStatus.failureReason = "")
        /\ ~gridOk => (useLambdaTest /\ page = "open")
        /\ FinalizeTest("afterEach", BodyTitle, "global", BodyTestData, page, fs, shot, gridOk,
              IF PageIsTruthy(page) /\ useLambdaTest
                THEN markLambdaTestStatus(page, testStatus.success, gridOk) ELSE <<>>)
  /\ pc' = "return"
  /\ events' = Append(events, "afterEach")
  /\ BodyFrame
  /\ UNCHANGED << page, stepIdx, executed, caught, runnerError >>

\* The test function ends: it returns, or raises to the test runner the error
\* the finally block raised, else the one the catch block rethrew.
EndTest ==
  /\ pc = "return"
  /\ runnerError' = IF out.raised THEN Err(out.error) ELSE caught
  /\ pc' = "done"
  /\ events' = Append(events, IF out.raised \/ caught.thrown THEN "raise" ELSE "pass")
  /\ BodyFrame
  /\ UNCHANGED << envRunTimestamp, runTimestamp, fsDirs, testStartTime, testStatus,
                  callerStatus, out, testData, page, stepIdx, executed, caught >>

\* The page closes, or its handle breaks, while the test runs.
PageFails ==
  /\ pc \in {"steps", "catch", "onFailure", "finally"}
  /\ page = "open"
  /\ page' \in {"closed", "isClosedThrows"}
  /\ BodyFrame
  /\ UNCHANGED << envRunTimestamp, runTimestamp, fsDirs, testStartTime, testStatus,
                  callerStatus, out, testData, pc, stepIdx, executed, events, caught,
                  runnerError >>

\* Time passes.
Tick ==
  /\ clock < MaxClock
  /\ pc # "done"
  /\ clock' = clock + 1
  /\ UNCHANGED << envVars, bodyVars, envRunTimestamp, runTimestamp, fsDirs, testStartTime,
                  testStatus, callerStatus, out, calls, testData, workers, dataVars >>

Next ==
  \/ BeforeEach
  \/ BeforeEachFails
  \/ RunMandatoryStep
  \/ RunRetryStep
  \/ RunOptionalStep
  \/ SkipPaymentStep
  \/ MarkTestPassed
  \/ MarkTestFailed
  \/ OnFailure
  \/ AfterEach
  \/ EndTest
  \/ PageFails
  \/ Tick

Spec == Init /\ [][Next]_vars

----------------------------------------------------------------------------
(* SpecWorkers: the main process loads the configuration, then worker       *)
(* processes start, each loading it again and running tests one at a time   *)

InitWorkers ==
  /\ InitCommon
  /\ callerStatus = NoStatus
  /\ pc = "config"
  /\ page = "null"
  /\ skipPayment = FALSE

WorkersFrame ==
  UNCHANGED << envVars, dataVars, testStartTime, testStatus, callerStatus, calls, page,
               skipPayment,
               testData, stepIdx, testIdx, executed, events, caught, runnerError >>

\* getReporterConfig() at the current time in a process whose environment
\* holds envTs and whose ReporterManager.runTimestamp is staticTs.
getReporterConfig(envTs, staticTs, c, dirs, env, lambda) ==
  LET ts   == getRunTimestamp(envTs, staticTs, c)
      name == ReportFolderName("report", env, lambda, ts.value)
  IN [env |-> ts.env, static |-> ts.static,
      folder |-> generateCurrentReportFolder(env, lambda, ts.value),
      dirs |-> ensureDirectoryExists(ensureDirectoryExists(dirs, name, name, {}),
                                     TestResultsDir, name, {})]

\* playwright.config.ts in the main process: reporter: getReporterConfig()
LoadConfig ==
  /\ pc = "config"
  /\ \E r \in { getReporterConfig(envRunTimestamp, runTimestamp, clock, fsDirs,
                                   testEnv, useLambdaTest) } :
        /\ envRunTimestamp' = r.env
        /\ runTimestamp' = r.static
        /\ fsDirs' = r.dirs
        /\ out' = [NoCall EXCEPT !.op = "getReporterConfig", !.ret = r.folder,
                                 !.worker = "main"]
  /\ pc' = "run"
  /\ UNCHANGED << clock, workers, dataVars >>
  /\ WorkersFrame

\* A worker process starts: it inherits the environment of the main process,
\* has fresh static state, and loads playwright.config.ts itself.
SpawnWorker(w) ==
  /\ pc = "run"
  /\ ~workers[w].spawned
  /\ \E r \in { getReporterConfig(envRunTimestamp, "", clock, fsDirs,
                                   testEnv, useLambdaTest) } :
        /\ workers' = [workers EXCEPT ![w] =
                         [NotSpawned EXCEPT !.spawned = TRUE, !.envTs = r.env,
                                            !.staticTs = r.static, !.folder = r.folder,
                                            !.at = clock]]
        /\ fsDirs' = r.dirs
        /\ out' = [NoCall EXCEPT !.op = "getReporterConfig", !.ret = r.folder,
                                 !.worker = w]
  /\ UNCHANGED << envRunTimestamp, runTimestamp, clock, pc >>
  /\ WorkersFrame

\* ReporterManager.generateCurrentReportFolder() called in worker w.
WorkerReportFolder(w) ==
  /\ workers[w].spawned
  /\ \E ts \in { getRunTimestamp(workers[w].envTs, workers[w].staticTs, clock) } :
     \E folder \in { generateCurrentReportFolder(testEnv, useLambdaTest, ts.value) } :
        /\ workers' = [workers EXCEPT ![w].envTs = ts.env, ![w].staticTs = ts.static,
                                      ![w].folder = folder, ![w].at = clock]
        /\ out' = [NoCall EXCEPT !.op = "generateCurrentReportFolder", !.ret = folder,
                                 !.worker = w]
  /\ UNCHANGED << envRunTimestamp, runTimestamp, clock, fsDirs, pc >>
  /\ WorkersFrame

\* TestExecutionHelper.initializeTest in worker w, which runs one test at a time.
WorkerInitializeTest(w) ==
  /\ workers[w].spawned
  /\ ~workers[w].inTest
  /\ workers' = [StoreStatus(workers, w, createTestStatus) EXCEPT
                   ![w].inTest = TRUE, ![w].steps = 0]
  /\ out' = [NoCall EXCEPT !.op = "initializeTest", !.form = "global", !.worker = w]
  /\ UNCHANGED << envRunTimestamp, runTimestamp, clock, fsDirs, pc >>
  /\ WorkersFrame

\* executeStep(stepName, stepFunction) by the test running in worker w.
WorkerExecuteStep(w) ==
  /\ workers[w].inTest
  /\ workers[w].steps < MaxCalls
  /\ \E outcome \in ApiOutcomes :
     \E r \in { executeStep(workers[w].status, BodySteps[workers[w].steps + 1].name,
                             TRUE, outcome) } :
        /\ workers' = [StoreStatus(workers, w, r.status) EXCEPT
                         ![w].steps = workers[w].steps + 1]
        /\ out' = [NoCall EXCEPT !.op = "executeStep", !.form = "global",
                                 !.stepName = BodySteps[workers[w].steps + 1].name,
                                 !.ran = r.ran, !.threw = r.ran /\ outcome.threw,
                                 !.raised = r.raised, !.error = r.error, !.ret = r.ret,
                                 !.worker = w]
  /\ UNCHANGED << envRunTimestamp, runTimestamp, clock, fsDirs, pc >>
  /\ WorkersFrame

\* executeOptionalStep(stepName, stepFunction) by the test running in worker w.
WorkerExecuteOptionalStep(w) ==
  /\ workers[w].inTest
  /\ workers[w].steps < MaxCalls
  /\ \E outcome \in ApiOutcomes :
     \E r \in { executeOptionalStep(workers[w].status,
                                     BodySteps[workers[w].steps + 1].name,
                                     TRUE, outcome, Undefined) } :
        /\ workers' = [StoreStatus(workers, w, r.status) EXCEPT
                         ![w].steps = workers[w].steps + 1]
        /\ out' = [NoCall EXCEPT !.op = "executeOptionalStep", !.form = "global",
                                 !.stepName = BodySteps[workers[w].steps + 1].name,
                                 !.ran = r.ran, !.threw = r.ran /\ outcome.threw,
                                 !.raised = r.raised, !.error = r.error, !.ret = r.ret,
                                 !.worker = w]
  /\ UNCHANGED << envRunTimestamp, runTimestamp, clock, fsDirs, pc >>
  /\ WorkersFrame

\* afterEach -> finalizeTest by the test running in worker w: the record it
\* reads, marks and reports; the test is then over.
WorkerFinalizeTest(w) ==
  /\ workers[w].inTest
  /\ \E final \in { markSuccessful(workers[w].status) } :
        /\ workers' = [StoreStatus(workers, w, final) EXCEPT ![w].inTest = FALSE]
        /\ out' = [NoCall EXCEPT
                     !.op = "finalizeTest", !.form = "global", !.worker = w,
                     !.summary = Obj(<< <<"status", Str(IF final.success THEN "PASSED"
                                                        ELSE "FAILED")>>,
                                        <<"failureReason", Str(final.failureReason)>>,
                                        <<"currentStep", Str(final.currentStep)>> >>)]
  /\ UNCHANGED << envRunTimestamp, runTimestamp, clock, fsDirs, pc >>
  /\ WorkersFrame

\* A minute passes.
MinutePasses ==
  /\ clock + 2 <= 2 * MaxMinutes
  /\ clock' = clock + 2
  /\ UNCHANGED << envVars, bodyVars, envRunTimestamp, runTimestamp, fsDirs, testStartTime,
                  testStatus, callerStatus, out, calls, testData, workers, dataVars >>

NextWorkers ==
  \/ LoadConfig
  \/ MinutePasses
  \/ \E w \in WorkerIds :
        \/ SpawnWorker(w)
        \/ WorkerReportFolder(w)
        \/ WorkerInitializeTest(w)
        \/ WorkerExecuteStep(w)
        \/ WorkerExecuteOptionalStep(w)
        \/ WorkerFinalizeTest(w)

SpecWorkers == InitWorkers /\ [][NextWorkers]_vars

----------------------------------------------------------------------------
(* SpecReporter: one process calling into ReporterManager while time passes *)

\* The run timestamp a parent process may have left in the environment, and
\* the folder named after it.
PresetFolders == { ReportFolderName("report", prof.testEnv, prof.lambda, prof.runTs) :
                     prof \in { q \in EnvProfiles : q.runTs # "" } }

\* A results directory configured by PLAYWRIGHT_RESULTS_DIR=report-results.
ReportResultsDir == "report-results"

\* The directories of the output base directory ensureDirectoryExists is
\* called for besides the current run folder: the results directory, default
\* or configured, and the report folder of an earlier run.
DirPaths == {TestResultsDir, ReportResultsDir, StaleFolder}

\* What the output base directory may hold when the process starts.
PriorListings ==
  { [d \in {} |-> NoFile],
    [d \in {StaleFolder} |-> StaleSummary],
    [d \in {StaleFolder, StaleFolder2} |-> StaleSummary],
    [d \in {StaleFolder, StaleFolder2, TestResultsDir, ReportResultsDir} \cup PresetFolders
        |-> StaleSummary] }

InitReporter ==
  /\ \E prof \in EnvProfiles :
        /\ testEnv = prof.testEnv
        /\ useLambdaTest = prof.lambda
        /\ envRunTimestamp = prof.runTs
  /\ fsDirs \in PriorListings
  /\ dataFiles = DefaultFiles
  /\ InitState
  /\ callerStatus = NoStatus
  /\ pc = "reporter"
  /\ page = "null"
  /\ skipPayment = FALSE

ReporterCalled ==
  /\ calls < MaxCalls
  /\ calls' = calls + 1
  /\ UNCHANGED << envVars, clock, testStartTime, testStatus, callerStatus, page, skipPayment,
                  testData, pc, stepIdx, testIdx, executed, caught, runnerError, workers,
                  dataVars >>

\* console.log(`Generated run timestamp: ...`), once per generation.
LogGenerated(log, n) ==
  IF n = 0 THEN log
  ELSE IF n = 1 THEN Append(log, "Generated run timestamp")
  ELSE log \o << "Generated run timestamp", "Generated run timestamp" >>

Count(b) == IF b THEN 1 ELSE 0

\* ReporterManager.getRunTimestamp()
GetRunTimestamp ==
  /\ ReporterCalled
  /\ \E ts \in { getRunTimestamp(envRunTimestamp, runTimestamp, clock) } :
        /\ envRunTimestamp' = ts.env
        /\ runTimestamp' = ts.static
        /\ events' = LogGenerated(events, Count(ts.generated))
        /\ out' = [NoCall EXCEPT !.op = "getRunTimestamp", !.ret = ts.value]
  /\ UNCHANGED fsDirs

\* ReporterManager.generateCurrentReportFolder()
GenerateCurrentReportFolder ==
  /\ ReporterCalled
  /\ \E ts \in { getRunTimestamp(envRunTimestamp, runTimestamp, clock) } :
        /\ envRunTimestamp' = ts.env
        /\ runTimestamp' = ts.static
        /\ events' = LogGenerated(events, Count(ts.generated))
        /\ out' = [NoCall EXCEPT
                     !.op = "generateCurrentReportFolder",
                     !.folder = generateCurrentReportFolder(testEnv, useLambdaTest, ts.value)]
  /\ UNCHANGED fsDirs

\* ReporterManager.getCurrentReportPaths(): the folder, then the timestamp.
GetCurrentReportPaths ==
  /\ ReporterCalled
  /\ \E ts1 \in { getRunTimestamp(envRunTimestamp, runTimestamp, clock) } :
     \E ts2 \in { getRunTimestamp(ts1.env, ts1.static, clock) } :
        /\ envRunTimestamp' = ts2.env
        /\ runTimestamp' = ts2.static
        /\ events' = LogGenerated(events, Count(ts1.generated) + Count(ts2.generated))
        /\ out' = [NoCall EXCEPT
                     !.op = "getCurrentReportPaths",
                     !.folder = generateCurrentReportFolder(testEnv, useLambdaTest, ts1.value),
                     !.ret = ts2.value]
  /\ UNCHANGED fsDirs

\* ReporterManager.ensureDirectoryExists(generateCurrentReportFolder()).  stuck
\* are the old folders fs.rmSync fails on, mkdirOk is false when fs.mkdirSync
\* throws.
EnsureDirectoryExists ==
  /\ ReporterCalled
  /\ \E ts \in { getRunTimestamp(envRunTimestamp, runTimestamp, clock) } :
     \E name \in { ReportFolderName("report", testEnv, useLambdaTest, ts.value) } :
     \E stuck \in SUBSET { d \in DOMAIN fsDirs : StartsWith(d, "report-") /\ d # name },
        mkdirOk \in BOOLEAN :
     \E kept \in { cleanupOldReports(fsDirs, name, stuck) } :
        /\ ~mkdirOk => name \notin DOMAIN kept
        /\ envRunTimestamp' = ts.env
        /\ runTimestamp' = ts.static
        /\ events' = LogGenerated(events, Count(ts.generated))
        /\ fsDirs' = IF mkdirOk THEN ensureDirectoryExists(fsDirs, name, name, stuck)
                     ELSE kept
        /\ out' = [NoCall EXCEPT !.op = "ensureDirectoryExists", !.folder = name,
                                 !.listing = DOMAIN fsDirs, !.stuck = stuck,
                                 !.raised = ~mkdirOk,
                                 !.error = IF mkdirOk THEN "" ELSE "EACCES: permission denied, mkdir"]

\* ReporterManager.ensureDirectoryExists(dirPath) for another directory of the
\* output base directory, as getReporterConfig does for getTestResultsDir():
\* cleanupOldReports() spares the current run folder only, then dirPath is
\* created when it is missing.
EnsureDirectoryExistsAt ==
  /\ ReporterCalled
  /\ \E ts \in { getRunTimestamp(envRunTimestamp, runTimestamp, clock) } :
     \E current \in { ReportFolderName("report", testEnv, useLambdaTest, ts.value) } :
     \E dirPath \in DirPaths,
        stuck \in SUBSET { d \in DOMAIN fsDirs : StartsWith(d, "report-") /\ d # current },
        mkdirOk \in BOOLEAN :
     \E kept \in { cleanupOldReports(fsDirs, current, stuck) } :
        /\ ~mkdirOk => dirPath \notin DOMAIN kept
        /\ envRunTimestamp' = ts.env
        /\ runTimestamp' = ts.static
        /\ events' = LogGenerated(events, Count(ts.generated))
        /\ fsDirs' = IF mkdirOk THEN ensureDirectoryExists(fsDirs, dirPath, current, stuck)
                     ELSE kept
        /\ out' = [NoCall EXCEPT !.op = "ensureDirectoryExists(dirPath)", !.folder = current,
                                 !.arg = dirPath,
                                 !.listing = DOMAIN fsDirs, !.stuck = stuck,
                                 !.raised = ~mkdirOk,
                                 !.error = IF mkdirOk THEN "" ELSE "EACCES: permission denied, mkdir"]

NextReporter ==
  \/ GetRunTimestamp
  \/ GenerateCurrentReportFolder
  \/ GetCurrentReportPaths
  \/ EnsureDirectoryExists
  \/ EnsureDirectoryExistsAt
  \/ MinutePasses

SpecReporter == InitReporter /\ [][NextReporter]_vars

-----------------------------------------------------------------------------
(* SpecConfig: one process calling into its ConfigManager instance *)

\* The state once ConfigManager.getInstance() has constructed the instance.
InitConfig ==
  /\ testEnv \in TestEnvValues
  /\ useLambdaTest = FALSE
  /\ envRunTimestamp = ""
  /\ fsDirs = [d \in {} |-> NoFile]
  /\ dataFiles = DefaultFiles
  /\ InitState
  /\ callerStatus = NoStatus
  /\ pc = "config"
  /\ page = "null"
  /\ skipPayment = FALSE

ConfigCalled ==
  /\ calls < MaxCalls
  /\ calls' = calls + 1
  /\ UNCHANGED << testEnv, useLambdaTest, envRunTimestamp, runTimestamp, clock, fsDirs,
                  testStartTime, testStatus, callerStatus, bodyVars, testData, workers,
                  dataVars >>

\* Names callers pass to setEnvironment.
SetEnvironmentArgs == ConfigEnvironments \cup {"qa", "toString"}

\* ConfigManager.getInstance(), the instance being there already.
GetInstance ==
  /\ ConfigCalled
  /\ out' = [NoCall EXCEPT !.op = "getInstance"]
  /\ UNCHANGED currentEnv

\* configManager.getEnvironment()
GetEnvironment ==
  /\ ConfigCalled
  /\ out' = [NoCall EXCEPT !.op = "getEnvironment", !.ret = Str(getEnvironment)]
  /\ UNCHANGED currentEnv

\* configManager.setEnvironment(env)
SetEnvironment ==
  /\ ConfigCalled
  /\ \E env \in SetEnvironmentArgs :
     \E r \in { setEnvironment(currentEnv, env) } :
        /\ currentEnv' = r.currentEnv
        /\ out' = [NoCall EXCEPT !.op = "setEnvironment", !.arg = env,
                                 !.raised = r.raised, !.error = r.error]

\* configManager.getBaseUrl()
GetBaseUrl ==
  /\ ConfigCalled
  /\ out' = [NoCall EXCEPT !.op = "getBaseUrl", !.ret = getBaseUrl(currentEnv)]
  /\ UNCHANGED currentEnv

NextConfig ==
  \/ GetInstance
  \/ GetEnvironment
  \/ SetEnvironment
  \/ GetBaseUrl

SpecConfig == InitConfig /\ [][NextConfig]_vars

-----------------------------------------------------------------------------
(* SpecSuite: one worker process running the tests of the file one after    *)
(* the other, as for (const hoteldata of hotelDestinations) test(...) does   *)

InitSuite ==
  /\ InitCommon
  /\ callerStatus = NoStatus
  /\ pc = "idle"
  /\ page = "open"
  /\ skipPayment = FALSE

SuiteFrame ==
  UNCHANGED << envVars, clock, calls, page, skipPayment, executed, events, caught,
               runnerError, workers, dataVars >>

\* The folder of the run the process belongs to.
RunFolder == ReportFolderName("report", testEnv, useLambdaTest, envRunTimestamp)

\* beforeEach -> initializeTest of the next test of the file.
SuiteInitializeTest ==
  /\ pc = "idle"
  /\ InitializeTest(BodyTitle, BodyTestData)
  /\ pc' = "test"
  /\ stepIdx' = 1
  /\ UNCHANGED testIdx
  /\ SuiteFrame

\* A step of the running test; a step that raises ends the try block.
SuiteExecuteStep ==
  /\ pc = "test"
  /\ stepIdx <= MaxCalls
  /\ \E outcome \in ApiOutcomes : ExecuteStep("global", BodySteps[stepIdx].name, TRUE, outcome)
  /\ stepIdx' = stepIdx + 1
  /\ pc' = IF out'.raised THEN "finally" ELSE "test"
  /\ UNCHANGED testIdx
  /\ SuiteFrame

\* finally { afterEach } -> finalizeTest of the running test; the next test of
\* the file, if any, is then due.
SuiteFinalizeTest ==
  /\ pc \in {"test", "finally"}
  /\ \E fs \in FsOutcomes :
        FinalizeTest("finalizeTest", BodyTitle, "global", testData, page, fs, "ok", TRUE, <<>>)
  /\ IF testIdx < Len(Destinations)
       THEN testIdx' = testIdx + 1 /\ pc' = "idle"
       ELSE testIdx' = testIdx /\ pc' = "done"
  /\ UNCHANGED stepIdx
  /\ SuiteFrame

NextSuite ==
  \/ SuiteInitializeTest
  \/ SuiteExecuteStep
  \/ SuiteFinalizeTest
  \/ Tick

SpecSuite == InitSuite /\ [][NextSuite]_vars

-----------------------------------------------------------------------------
(* SpecEnv: the tests of one worker process under any value of TEST_ENV,    *)
(* with calls of setEnvironment in between                                  *)

\* A local run; the main process has left the run timestamp in the environment.
InitEnv ==
  /\ testEnv \in TestEnvValues
  /\ useLambdaTest = FALSE
  /\ envRunTimestamp = "2025-01-01_09-59"
  /\ fsDirs = [d \in {} |-> NoFile]
  /\ dataFiles = DefaultFiles
  /\ InitState
  /\ callerStatus = NoStatus
  /\ pc = "idle"
  /\ page = "open"
  /\ skipPayment = FALSE

\* ConfigManager.getInstance().setEnvironment(env), by a test or a helper
EnvSetEnvironment ==
  /\ pc # "done"
  /\ \E env \in SetEnvironmentArgs :
     \E r \in { setEnvironment(currentEnv, env) } :
        /\ currentEnv' = r.currentEnv
        /\ out' = [NoCall EXCEPT !.op = "setEnvironment", !.arg = env,
                                 !.raised = r.raised, !.error = r.error]
  /\ UNCHANGED << testEnv, useLambdaTest, envRunTimestamp, runTimestamp, clock, fsDirs,
                  testStartTime, testStatus, callerStatus, calls, bodyVars, testData,
                  workers, dataVars >>

NextEnv ==
  \/ SuiteInitializeTest
  \/ SuiteExecuteStep
  \/ SuiteFinalizeTest
  \/ EnvSetEnvironment
  \/ Tick

SpecEnv == InitEnv /\ [][NextEnv]_vars

-----------------------------------------------------------------------------
(* SpecData: callers of one process loading fixtures through TestDataManager *)

InitData ==
  /\ testEnv = ""
  /\ useLambdaTest = FALSE
  /\ envRunTimestamp = ""
  /\ fsDirs = [d \in {} |-> NoFile]
  /\ dataFiles \in [FileNames -> FileStates]
  /\ InitState
  /\ callerStatus = NoStatus
  /\ pc = "data"
  /\ page = "null"
  /\ skipPayment = FALSE

DataFrame ==
  UNCHANGED << envVars, bodyVars, envRunTimestamp, runTimestamp, clock, fsDirs,
               testStartTime, testStatus, callerStatus, testData, workers >>

\* testDataManager.loadTestData(fileName)
LoadTestData ==
  /\ calls < MaxCalls
  /\ calls' = calls + 1
  /\ \E fileName \in FileNames :
     \E r \in { loadTestData(testDataCache, heap, dataFiles, fileName) } :
        /\ testDataCache' = r.cache
        /\ heap' = r.heap
        /\ out' = [NoCall EXCEPT !.op = "loadTestData", !.arg = fileName,
                                 !.raised = r.raised, !.error = r.error, !.ret = r.ret,
                                 !.read = r.read,
                                 !.content = IF r.raised THEN NoContent ELSE r.heap[r.ret]]
  /\ UNCHANGED dataFiles
  /\ DataFrame

\* A caller changes the object loadTestData returned to it.
CallerMutates ==
  /\ \E object \in DOMAIN heap :
     \E content \in Mutations(heap[object]) :
        /\ content # heap[object]
        /\ heap' = [heap EXCEPT ![object] = content]
  /\ UNCHANGED << testDataCache, dataFiles, out, calls >>
  /\ DataFrame

\* A file of tests/testdata is created, removed or rewritten.
FileChanges ==
  /\ \E fileName \in FileNames, state \in FileStates :
        /\ state # dataFiles[fileName]
        /\ dataFiles' = [dataFiles EXCEPT ![fileName] = state]
  /\ UNCHANGED << testDataCache, heap, out, calls >>
  /\ DataFrame

NextData ==
  \/ LoadTestData
  \/ CallerMutates
  \/ FileChanges

SpecData == InitData /\ [][NextData]_vars

-----------------------------------------------------------------------------
(* SpecWait: callers of TestUtils.waitForElementWithRetry *)

MaxRetries == 3    \* largest maxRetries a caller passes

Selectors == {".hotel-card", "#payment-form"}

\* while (retryCount < maxRetries) { try { await page.waitForSelector(...);
\* return } catch { retryCount++; if (retryCount === maxRetries) throw new
\* Error(...); await page.waitForTimeout(2000) } }, with retryCount attempts
\* made so far.  found[k] is whether the k-th waitForSelector finds the
\* element, waits[k] whether the wait after the k-th failure completes.
RECURSIVE waitForElementWithRetry(_, _, _, _, _)
waitForElementWithRetry(retryCount, selector, maxRetries, found, waits) ==
  IF ~(retryCount < maxRetries)
    THEN [raised |-> FALSE, error |-> "", trail |-> <<>>]
  ELSE IF found[retryCount + 1]
    THEN [raised |-> FALSE, error |-> "", trail |-> << "try", "ok" >>]
  ELSE IF retryCount + 1 = maxRetries
    THEN [raised |-> TRUE,
          error |-> "Element " \o selector \o " not found after "
                      \o ToString(maxRetries) \o " retries",
          trail |-> << "try", "fail" >>]
  ELSE IF ~waits[retryCount + 1]
    THEN [raised |-> TRUE, error |-> WaitErrorText,
          trail |-> << "try", "fail", "waitFailed" >>]
  ELSE LET rest == waitForElementWithRetry(retryCount + 1, selector, maxRetries, found, waits)
       IN [rest EXCEPT !.trail = << "try", "fail", "wait" >> \o rest.trail]

InitWait ==
  /\ InitCommon
  /\ callerStatus = NoStatus
  /\ pc = "wait"
  /\ page = "open"
  /\ skipPayment = FALSE

\* TestUtils.waitForElementWithRetry(page, selector, maxRetries)
WaitForElementWithRetry ==
  /\ Called
  /\ \E selector \in Selectors, maxRetries \in 0..MaxRetries,
        found \in [1..MaxRetries -> BOOLEAN], waits \in [1..MaxRetries -> BOOLEAN] :
     \E r \in { waitForElementWithRetry(0, selector, maxRetries, found, waits) } :
        out' = [NoCall EXCEPT !.op = "waitForElementWithRetry", !.arg = selector,
                              !.maxRetries = maxRetries, !.page = page,
                              !.raised = r.raised, !.error = r.error, !.trail = r.trail]
  /\ UNCHANGED << envRunTimestamp, runTimestamp, fsDirs, testStartTime, testStatus,
                  callerStatus, testData >>

NextWait ==
  \/ WaitForElementWithRetry
  \/ Tick

SpecWait == InitWait /\ [][NextWait]_vars

----------------------------------------------------------------------------
(* Properties of the operations called in any order (SpecApi) *)

\* A step of SpecApi in which operation op was called.
CallOf(op) == calls' # calls /\ out'.op = op

\* C2, as stated: when the step function of an optional step throws,
\* executeOptionalStep raises nothing, returns the supplied default value, and
\* leaves success, failureReason and currentStep of the record as they were.
C2_AsStated ==
  [][ (CallOf("executeOptionalStep") /\ out'.threw) =>
        /\ ~out'.raised
        /\ out'.ret = out'.default
        /\ (IF out'.form = "explicit" THEN callerStatus' ELSE testStatus') = Target(out'.form)
    ]_vars

\* C2, amended: when the step function of an optional step throws,
\* executeOptionalStep raises nothing, returns the supplied default value
\* (undefined when none is supplied), leaves success and failureReason as they
\* were, and sets currentStep to the name of the optional step.
C2_OptionalStepFailure ==
  [][ (CallOf("executeOptionalStep") /\ out'.threw) =>
        LET before == Target(out'.form)
            after  == IF out'.form = "explicit" THEN callerStatus' ELSE testStatus'
        IN /\ ~out'.raised
           /\ out'.ret = out'.default
           /\ after.success = before.success
           /\ after.failureReason = before.failureReason
           /\ after.currentStep = out'.stepName
    ]_vars

\* An optional step has thrown, the default "fallback" came back, and the
\* record's currentStep, set by an earlier step, was replaced by this step's name.
C2_Witness ==
  /\ out.op = "executeOptionalStep"
  /\ out.threw
  /\ out.default = "fallback"
  /\ out.ret = "fallback"
  /\ calls >= 2
  /\ Target(out.form).currentStep = out.stepName

\* C3, as stated: in every reachable state no status record has success true
\* while its failureReason is non-empty.
C3_AsStated ==
  \A st \in {testStatus, callerStatus} :
     st # NoStatus => ~(st.success /\ st.failureReason # "")

\* C3, amended: no operation turns success to true on a record whose
\* failureReason is non-empty (finalizeTest sets success only when failureReason
\* is empty), and a record comes to have success true together with a non-empty
\* failureReason only by executeStep failing on a record already marked
\* successful.
C3_SuccessNeverSetAfterFailure ==
  [][ \A form \in Forms :
        LET before == Target(form)
            after  == IF form = "explicit" THEN callerStatus' ELSE testStatus'
        IN (before # NoStatus /\ after # NoStatus) =>
             /\ (~before.success /\ after.success) =>
                   (before.failureReason = "" /\ after.failureReason = "")
             /\ (after.success /\ after.failureReason # ""
                   /\ ~(before.success /\ before.failureReason # "")) =>
                   (out'.op = "executeStep" /\ out'.form = form /\ out'.threw
                      /\ before.success)
    ]_vars

\* finalizeTest has run on a record whose mandatory step failed: success is
\* still false.
C3_Witness ==
  /\ out.op = "finalizeTest"
  /\ ~out.raised
  /\ Target(out.form).failureReason # ""
  /\ ~Target(out.form).success

\* C6: finalizeTest on a record that already has success = true leaves the
\* record, currentStep included, as it was; and finalizeTest called right after
\* finalizeTest on the same record changes none of its fields.
C6_FinalizeIdempotent ==
  [][ CallOf("finalizeTest") =>
        LET before == Target(out'.form)
            after  == IF out'.form = "explicit" THEN callerStatus' ELSE testStatus'
        IN /\ (before # NoStatus /\ before.success) => after = before
           /\ (out.op = "finalizeTest" /\ out.form = out'.form) => after = before
    ]_vars

\* finalizeTest has run on a record that was already successful and whose
\* currentStep a later step had set: the step's name is still there.
C6_Witness ==
  /\ out.op = "finalizeTest"
  /\ ~out.raised
  /\ Target(out.form).success
  /\ Target(out.form).currentStep \in StepNames

C8_ScreenshotFailureInFinalize ==
  (out.op = "finalizeTest" /\ out.shot # "ok" /\ out.page = "open"
     /\ Get(out.summary, "status") = Str("PASSED")) =>
     /\ ~out.raised
     /\ out.shots = 1
     /\ Target(out.form).success
     /\ Len(out.attached) = 1
     /\ out.attached[1] = attachJson("Test Summary", out.summary)
     /\ out.written => Get(JsonParse(fsDirs[out.folder]), "status") = Str("PASSED")

\* The capture threw while a successful test with a live page was finalized,
\* after the summary had been written.
C8_Witness ==
  /\ out.op = "finalizeTest"
  /\ out.shot = "captureThrows"
  /\ out.page = "open"
  /\ out.shots = 1
  /\ out.written
  /\ Target(out.form).success

\* C9: when creating the run folder or writing the summary file throws,
\* finalizeTest raises nothing, the record is what the marking alone made of
\* it, and a record with no failure is reported with success = true and an
\* attached summary of status "PASSED".
C9_PersistFailureCaught ==
  [][ (CallOf("finalizeTest") /\ out'.fs # "ok" /\ ~out'.written
         /\ Target(out'.form) # NoStatus) =>
        LET before == Target(out'.form)
            after  == IF out'.form = "explicit" THEN callerStatus' ELSE testStatus'
        IN /\ ~out'.raised
           /\ after = markSuccessful(before)
           /\ before.failureReason = "" =>
                /\ after.success
                /\ Len(out'.attached) >= 1
                /\ out'.attached[1].name = "Test Summary"
                /\ Get(out'.summary, "status") = Str("PASSED")
    ]_vars

\* Writing the summary file threw while a passing test was finalized.
C9_Witness ==
  /\ out.op = "finalizeTest"
  /\ out.fs = "writeThrows"
  /\ ~out.written
  /\ ~out.raised
  /\ Target(out.form).success

UnusablePages == {"null", "closed", "isClosedThrows", "noIsClosed"}

C17_MissingStepFunction ==
  [][ ((CallOf("executeStep") \/ CallOf("executeOptionalStep"))
         /\ out'.form = "explicit" /\ ~out'.hasFn) =>
        /\ out'.raised
        /\ out'.error =
             (IF out'.op = "executeStep"
                THEN "stepFunction is required when providing testStatus. Usage: executeStep(stepName, testStatus, stepFunction)"
                ELSE "stepFunction is required when providing testStatus. Usage: executeOptionalStep(stepName, testStatus, stepFunction)")
        /\ ~out'.ran
        /\ ~out'.threw
        /\ out'.ret = Undefined
        /\ callerStatus' = callerStatus
        /\ testStatus' = testStatus ]_vars

\* executeStep has been called with a fresh record and no step function.
C17_Witness ==
  /\ out.op = "executeStep"
  /\ out.form = "explicit"
  /\ ~out.hasFn
  /\ out.raised
  /\ callerStatus = createTestStatus

\* C19: executeStep and executeOptionalStep set currentStep of the record to
\* the step name before they invoke the step function: the step function finds
\* the record with the new currentStep and with success and failureReason as
\* they were before the call.
C19_CurrentStepSetBeforeStepRuns ==
  [][ ((CallOf("executeStep") \/ CallOf("executeOptionalStep")) /\ out'.ran) =>
        LET before == IF out'.form = "explicit" THEN callerStatus ELSE testStatus
        IN /\ out'.seen # NoStatus
           /\ out'.seen.currentStep = out'.stepName
           /\ out'.seen.success = before.success
           /\ out'.seen.failureReason = before.failureReason ]_vars

\* The step function of an optional step, called on the process-wide record
\* after an earlier step had failed, has thrown.
C19_Witness ==
  /\ out.op = "executeOptionalStep"
  /\ out.form = "global"
  /\ out.ran
  /\ out.threw
  /\ out.seen # NoStatus
  /\ out.seen.currentStep = out.stepName
  /\ out.seen.failureReason # ""

\* C22: the two call shapes act on disjoint records: executeStep and
\* executeOptionalStep called with a function as second argument update the
\* process-wide record and leave the caller's record alone; called with a
\* status record they update that record and leave the process-wide one alone.
C22_CallShapesDisjoint ==
  [][ (CallOf("executeStep") \/ CallOf("executeOptionalStep")) =>
        /\ out'.form = "global" =>
             /\ callerStatus' = callerStatus
             /\ (out'.ran => testStatus'.currentStep = out'.stepName)
             /\ (~out'.ran => testStatus' = testStatus)
        /\ out'.form = "explicit" =>
             /\ testStatus' = testStatus
             /\ (out'.ran => callerStatus'.currentStep = out'.stepName)
             /\ (~out'.ran => callerStatus' = callerStatus) ]_vars

\* A step run on the caller's record has failed while the process-wide record
\* of the initialized test shows no failure and no step.
C22_Witness ==
  /\ out.op = "executeStep"
  /\ out.form = "explicit"
  /\ out.threw
  /\ callerStatus.failureReason # ""
  /\ testStatus = createTestStatus

----------------------------------------------------------------------------
(* Properties of the test body (Spec) *)

\* A mandatory step of the running test has thrown.
MandatoryStepThrew == \E i \in 1..Len(events) : events[i] = "console.error"

\* The optional step of the running test has thrown.
OptionalStepThrew == \E i \in 1..Len(events) : events[i] = "console.warn"

\* The names of the steps a run with no mandatory failure executes, in order.
DueSteps ==
  LET due == SelectSeq([i \in 1..Len(BodySteps) |-> i], LAMBDA i : ~Skipped(i))
  IN [k \in 1..Len(due) |-> BodySteps[due[k]].name]

\* What the body logged from the first console.error on.
RECURSIVE FromError(_)
FromError(log) ==
  IF log = <<>> \/ Head(log) = "console.error" THEN log ELSE FromError(Tail(log))

IsPrefix(a, b) == Len(a) <= Len(b) /\ SubSeq(b, 1, Len(a)) = a

\* C1: once mandatory step k of the body has thrown, the record's currentStep
\* is step k's name, its failureReason is "Failed at step '<name>': <message>",
\* step k is the last step executed, and all of this stays so to the test's end.
C1_FailedStepRecorded ==
  MandatoryStepThrew =>
     LET name == BodySteps[stepIdx].name
     IN /\ caught.thrown
        /\ testStatus.currentStep = name
        /\ testStatus.failureReason = "Failed at step '" \o name \o "': " \o caught.message
        /\ Len(executed) = stepIdx
        /\ \A i \in 1..stepIdx : executed[i] = BodySteps[i].name

\* The test has ended after its sixth step, 'Perform search', threw.
C1_Witness ==
  /\ pc = "done"
  /\ MandatoryStepThrew
  /\ stepIdx = 6
  /\ testStatus.currentStep = "Perform search"
  /\ caught.message # ""

\* C4: in a run where only the optional step throws, failureReason stays empty
\* throughout, the steps after the optional one are executed, and finalizeTest
\* ends with success = true and a summary of status "PASSED"; nothing is raised
\* to the runner.
C4_OptionalFailureDoesNotFail ==
  (OptionalStepThrew /\ ~MandatoryStepThrew) =>
     /\ testStatus.failureReason = ""
     /\ ~caught.thrown
     /\ IsPrefix(executed, DueSteps)
     /\ pc \in {"finally", "return", "done"} => executed = DueSteps
     /\ pc \in {"return", "done"} =>
           /\ out.op = "afterEach"
           /\ ~out.raised
           /\ testStatus.success
           /\ Get(out.summary, "status") = Str("PASSED")
           /\ Get(out.summary, "failureReason") = Str("")
     /\ pc = "done" => ~runnerError.thrown

\* A test whose optional step threw has ended, with the payment step run.
C4_Witness ==
  /\ pc = "done"
  /\ OptionalStepThrew
  /\ ~MandatoryStepThrew
  /\ ~skipPayment
  /\ Len(executed) = Len(BodySteps)
  /\ testStatus.success

C26_AsStated ==
  (useLambdaTest /\ ~caught.thrown /\ ~MandatoryStepThrew /\ ~OptionalStepThrew
     /\ out.op \in {"markTestPassed", "afterEach"}) =>
     \A i \in DOMAIN out.marks : out.marks[i] = "passed"

\* A grid test in which no step threw has ended, and afterEach marked it
\* 'failed' before its finalizeTest marked it 'passed'.
C26_Witness ==
  /\ pc = "done"
  /\ useLambdaTest
  /\ ~MandatoryStepThrew /\ ~OptionalStepThrew
  /\ ~runnerError.thrown
  /\ executed = DueSteps
  /\ out.op = "afterEach"
  /\ out.marks = << "failed", "passed" >>
  /\ Get(out.summary, "status") = Str("PASSED")

\* C24: the persisted summary has status "PASSED" only if the test body
\* completed without raising to the runner: whenever the catch block rethrows
\* an error, whatever raised it, the summary written by the finally block's
\* finalizeTest has status "FAILED".
C24_AsStated ==
  (pc \in {"return", "done"} /\ out.op = "afterEach" /\ out.written) =>
     /\ caught.thrown => Get(out.summary, "status") = Str("FAILED")
     /\ (pc = "done" /\ Get(out.summary, "status") = Str("PASSED")) => ~runnerError.thrown

\* initializeTest raised before the first step, the catch block rethrew the
\* error to the runner, and the summary written in between says "PASSED".
C24_Witness ==
  /\ pc = "done"
  /\ executed = <<>>
  /\ runnerError = Err("testInfo.attach: attachment failed")
  /\ out.op = "afterEach"
  /\ out.written
  /\ Get(out.summary, "status") = Str("PASSED")
  /\ Get(out.summary, "failureReason") = Str("")

----------------------------------------------------------------------------
(* Properties of the worker processes of one run (SpecWorkers) *)

\* C11: any two workers of the run whose environment holds the shared
\* PLAYWRIGHT_RUN_TIMESTAMP get the same path from generateCurrentReportFolder,
\* the one named after that timestamp, whatever the time of their calls.
C11_SameFolderInAllWorkers ==
  \A v \in WorkerIds, w \in WorkerIds :
     (workers[v].spawned /\ workers[w].spawned
        /\ workers[v].envTs # "" /\ workers[w].envTs # "") =>
        /\ workers[v].folder = workers[w].folder
        /\ workers[v].folder =
             OutputBaseDir \o "/report-" \o (IF testEnv # "" THEN testEnv ELSE "prod")
                \o "-" \o (IF useLambdaTest THEN "lambdatest" ELSE "local")
                \o "-" \o envRunTimestamp

\* Two workers have asked for the folder a minute apart and hold the same path.
C11_Witness ==
  /\ workers["worker-1"].spawned
  /\ workers["worker-2"].spawned
  /\ workers["worker-1"].at = 0
  /\ workers["worker-2"].at = 2
  /\ workers["worker-1"].folder # ""
  /\ workers["worker-1"].folder = workers["worker-2"].folder

----------------------------------------------------------------------------
(* Properties of ReporterManager (SpecReporter) *)

ReportFolders == { d \in DOMAIN fsDirs : StartsWith(d, "report-") }

\* C12, as stated: ensureDirectoryExists for the current run folder F, called
\* when two older 'report-' folders exist, leaves F existing, neither of the
\* older folders, and F as the only 'report-' folder of the output directory.
C12_AsStated ==
  (out.op = "ensureDirectoryExists"
     /\ {StaleFolder, StaleFolder2} \subseteq out.listing
     /\ out.folder \notin {StaleFolder, StaleFolder2}) =>
     /\ out.folder \in DOMAIN fsDirs
     /\ StaleFolder \notin DOMAIN fsDirs
     /\ StaleFolder2 \notin DOMAIN fsDirs
     /\ ReportFolders = {out.folder}

\* C12, amended: ensureDirectoryExists for the current run folder F, called
\* when two older 'report-' folders exist, removes every older 'report-' folder
\* whose deletion succeeds and leaves in place, without raising, exactly those
\* whose deletion fails; F exists afterwards unless creating it fails, which
\* is the only error raised; when every deletion and the creation succeed, F
\* is the only 'report-' folder afterwards.
C12_OldReportsPruned ==
  (out.op = "ensureDirectoryExists"
     /\ {StaleFolder, StaleFolder2} \subseteq out.listing
     /\ out.folder \notin {StaleFolder, StaleFolder2}) =>
     /\ ReportFolders \ {out.folder} = out.stuck
     /\ ~out.raised => out.folder \in DOMAIN fsDirs
     /\ out.raised => (out.folder \notin out.listing /\ out.folder \notin DOMAIN fsDirs)
     /\ (out.stuck = {} /\ ~out.raised) => ReportFolders = {out.folder}
     /\ \A d \in out.listing : ~StartsWith(d, "report-") => d \in DOMAIN fsDirs

\* Two older folders were there, every deletion went through, and the run
\* folder, newly created, is the only 'report-' folder left.
C12_Witness ==
  /\ out.op = "ensureDirectoryExists"
  /\ {StaleFolder, StaleFolder2} \subseteq out.listing
  /\ out.folder \notin out.listing
  /\ out.stuck = {}
  /\ ~out.raised
  /\ ReportFolders = {out.folder}

\* The directory the last call of ensureDirectoryExists was made for.
EnsuredDir(call) == IF call.op = "ensureDirectoryExists" THEN call.folder ELSE call.arg

\* C25: ensureDirectoryExists(dirPath) never removes dirPath nor anything inside
\* it: a dirPath that exists before the call, whatever its name, exists after
\* it with the content it had.
C25_AsStated ==
  [][ (calls' # calls
         /\ out'.op \in {"ensureDirectoryExists", "ensureDirectoryExists(dirPath)"}
         /\ EnsuredDir(out') \in DOMAIN fsDirs) =>
        /\ EnsuredDir(out') \in DOMAIN fsDirs'
        /\ fsDirs'[EnsuredDir(out')] = fsDirs[EnsuredDir(out')] ]_vars

\* ensureDirectoryExists was called for the configured results directory
\* 'report-results', which existed with a file in it, and has left it empty.
C25_Witness ==
  /\ out.op = "ensureDirectoryExists(dirPath)"
  /\ out.arg = ReportResultsDir
  /\ ReportResultsDir \in out.listing
  /\ ~out.raised
  /\ ReportResultsDir \in DOMAIN fsDirs
  /\ fsDirs[ReportResultsDir] = NoFile

-----------------------------------------------------------------------------
(* Properties of the retry loops and the payment switch of the test body (Spec) *)

\* The step just executed held a retry loop and its step function reached the loop.
RetryStepRan ==
  /\ out.op = "executeStep"
  /\ out.stepName \in DOMAIN RetryLoops
  /\ out.trail # <<>>

TryCount(trail) == Cardinality({ i \in DOMAIN trail : trail[i] = "try" })

\* C13: each fixed-count retry loop (search 3, Book Now 3, continue to payment
\* 2) calls its action at most N times, stops at the first success, waits only
\* between a failed attempt and the next one, and when all N attempts fail
\* raises the error of the N-th attempt without a further attempt or wait; the
\* loop always ends.
C13_RetryLoopBounded ==
  RetryStepRan =>
    LET N == IF out.stepName = "Fill guest details" THEN 2 ELSE 3
        t == out.trail
    IN /\ TryCount(t) <= N
       /\ Len(t) <= 3 * N - 1
       /\ t[1] = "try"
       /\ \A i \in DOMAIN t :
            /\ t[i] = "try" => (i < Len(t) /\ t[i + 1] \in {"ok", "fail"}
                                 /\ (i > 1 => t[i - 1] = "wait"))
            /\ t[i] = "ok" => i = Len(t)
            /\ t[i] = "fail" => t[i - 1] = "try"
            /\ t[i] = "wait" => (t[i - 1] = "fail" /\ i < Len(t) /\ t[i + 1] = "try")
            /\ t[i] = "waitFailed" => (t[i - 1] = "fail" /\ i = Len(t))
       /\ (TryCount(t) = N /\ t[Len(t)] = "fail") =>
            /\ out.raised
            /\ out.error = (IF N = 2 THEN "attempt 2: Timeout 30000ms exceeded"
                                     ELSE "attempt 3: Timeout 30000ms exceeded")
       /\ t[Len(t)] = "fail" => TryCount(t) = N

\* All attempts of the continue-to-payment loop failed.
C13_Witness ==
  /\ RetryStepRan
  /\ out.stepName = "Fill guest details"
  /\ out.trail = << "try", "fail", "wait", "try", "fail" >>
  /\ out.error = "attempt 2: Timeout 30000ms exceeded"

\* How often the body logged the given console line.
TimesLogged(line) == Cardinality({ i \in 1..Len(events) : events[i] = line })

\* The search step has returned after two failed attempts of the search action.
SearchRecoveredOnThird ==
  /\ stepIdx > 6
  /\ TimesLogged("Search attempt failed") = 2

\* C14: when the search action throws on its first two attempts and succeeds
\* on the third, the 'Perform search' step returns with failureReason empty
\* after exactly two failure logs and two backoff waits; the following steps
\* run, and when none of them throws the test ends with success = true.
C14_SearchRecoversOnThirdAttempt ==
  SearchRecoveredOnThird =>
     /\ TimesLogged("Retrying search in 2 seconds...") = 2
     /\ \E i \in 1..Len(events) :
           SubSeq(events, i, i + 3) =
             << "Search attempt failed", "Retrying search in 2 seconds...",
                "Search attempt failed", "Retrying search in 2 seconds..." >>
     /\ \E k \in 1..Len(executed) : executed[k] = "Perform search"
     /\ (stepIdx = 7 /\ pc = "steps") =>
           /\ out.op = "executeStep"
           /\ out.stepName = "Perform search"
           /\ ~out.raised
           /\ out.trail = << "try", "fail", "wait", "try", "fail", "wait", "try", "ok" >>
           /\ testStatus.failureReason = ""
           /\ testStatus.currentStep = "Perform search"
     /\ ~MandatoryStepThrew =>
           /\ testStatus.failureReason = ""
           /\ IsPrefix(executed, DueSteps)
           /\ pc \in {"finally", "return", "done"} => executed = DueSteps
           /\ pc \in {"return", "done"} => testStatus.success

\* A test whose search succeeded on the third attempt has ended in success.
C14_Witness ==
  /\ SearchRecoveredOnThird
  /\ pc = "done"
  /\ testStatus.success
  /\ Len(executed) = Len(DueSteps)

\* The payment step has been attempted by the running test.
PaymentAttempted == \E k \in 1..Len(executed) : executed[k] = "Enter payment details"

\* C15: 'Enter payment details' is attempted exactly when skipPayment is false:
\* with skipPayment true it is never attempted; with skipPayment false a run in
\* which no step throws reaches it, whatever the destination; and in both cases
\* a run in which no step throws ends with success = true.
C15_PaymentOnlyWhenNotSkipped ==
  /\ PaymentAttempted => ~skipPayment
  /\ skipPayment => \A k \in 1..Len(executed) : executed[k] # "Enter payment details"
  /\ (~caught.thrown /\ pc \in {"finally", "return", "done"}) =>
        /\ PaymentAttempted <=> ~skipPayment
        /\ ~skipPayment => executed[Len(executed)] = "Enter payment details"
        /\ Len(executed) = IF skipPayment THEN Len(BodySteps) - 1 ELSE Len(BodySteps)
  /\ (~caught.thrown /\ pc \in {"return", "done"}) =>
        /\ testStatus.success
        /\ testStatus.failureReason = ""
        /\ Get(out.summary, "status") = Str("PASSED")

\* The test of the second destination has ended in success with the payment
\* step run.
C15_Witness ==
  /\ pc = "done"
  /\ ~skipPayment
  /\ testIdx = 2
  /\ PaymentAttempted
  /\ ~MandatoryStepThrew
  /\ testStatus.success

\* The test has ended in success with the payment step left out.
C15_WitnessSkipped ==
  /\ pc = "done"
  /\ skipPayment
  /\ ~PaymentAttempted
  /\ Len(executed) = Len(BodySteps) - 1
  /\ testStatus.success

-----------------------------------------------------------------------------
(* Properties of the run timestamp within one process (SpecReporter) *)

\* C20: within one process, whatever the sequence of getRunTimestamp,
\* generateCurrentReportFolder and getCurrentReportPaths calls, the run
\* timestamp is generated at most once, PLAYWRIGHT_RUN_TIMESTAMP is never
\* replaced once it is set, and every call returns that one timestamp, also
\* after the wall clock has moved to the next minute.
C20_RunTimestampGeneratedOnce ==
  /\ [][envRunTimestamp # "" => envRunTimestamp' = envRunTimestamp]_vars
  /\ [][runTimestamp # "" => runTimestamp' = runTimestamp]_vars
  /\ [](TimesLogged("Generated run timestamp") <= 1)
  /\ [](out.op \in {"getRunTimestamp", "getCurrentReportPaths"} =>
          (out.ret # "" /\ out.ret = envRunTimestamp))
  /\ [](out.op \in {"generateCurrentReportFolder", "getCurrentReportPaths"} =>
          /\ envRunTimestamp # ""
          /\ out.folder = "/project/report-" \o (IF testEnv = "" THEN "prod" ELSE testEnv) \o "-"
                            \o (IF useLambdaTest THEN "lambdatest" ELSE "local")
                            \o "-" \o envRunTimestamp)
  /\ [][(envRunTimestamp = "" /\ envRunTimestamp' # "") =>
          /\ TimesLogged("Generated run timestamp") = 0
          /\ envRunTimestamp' = runTimestamp'
          /\ envRunTimestamp' = "2025-01-01_10-0" \o ToString(clock \div 2)]_vars

\* The timestamp generated in the first minute is what getCurrentReportPaths
\* returns as the third call, in the next minute.
C20_Witness ==
  /\ out.op = "getCurrentReportPaths"
  /\ calls = 3
  /\ clock >= 2
  /\ out.ret = "2025-01-01_10-00"
  /\ runTimestamp = "2025-01-01_10-00"
  /\ TimesLogged("Generated run timestamp") = 1

-----------------------------------------------------------------------------
(* Properties of ConfigManager (SpecConfig) *)

\* C18, as stated: setEnvironment(env) changes the current environment only
\* when env is a key of the loaded environments map; for any other env it
\* raises an error and leaves the current environment as it was; and no other
\* operation changes the current environment after construction.
C18_AsStated ==
  /\ [][CallOf("setEnvironment") =>
          IF out'.arg \in {"prod", "staging"}
            THEN ~out'.raised /\ currentEnv' = out'.arg
            ELSE out'.raised /\ currentEnv' = currentEnv]_vars
  /\ [][currentEnv' # currentEnv => CallOf("setEnvironment")]_vars

\* What the code does: setEnvironment(env) raises, leaving the current
\* environment as it was, exactly when environments[env] is falsy, which a
\* member inherited from Object.prototype is not; no other operation changes
\* the current environment.
C18_SetEnvironmentByTruthiness ==
  /\ [][CallOf("setEnvironment") =>
          IF out'.arg \in {"prod", "staging", "constructor", "toString"}
            THEN ~out'.raised /\ currentEnv' = out'.arg
            ELSE /\ out'.raised
                 /\ out'.error = "Environment 'qa' not found in config"
                 /\ currentEnv' = currentEnv]_vars
  /\ [][currentEnv' # currentEnv => CallOf("setEnvironment")]_vars

\* setEnvironment('toString') has returned and the current environment is no
\* key of the environments map.
C18_Witness ==
  /\ out.op = "setEnvironment"
  /\ out.arg = "toString"
  /\ ~out.raised
  /\ currentEnv = "toString"
  /\ currentEnv \notin ConfigEnvironments

\* C27: after construction and any sequence of setEnvironment calls, the
\* current environment is a key of the environments map, for every value of
\* TEST_ENV, so that getBaseUrl reads the baseUrl of an environment of the map.
C27_AsStated ==
  /\ currentEnv \in {"prod", "staging"}
  /\ out.op = "getBaseUrl" => out.ret \in {Str("baseUrl of prod"), Str("baseUrl of staging")}

\* With TEST_ENV=constructor the instance was constructed with a current
\* environment that is no key of the map, and getBaseUrl has returned undefined.
C27_Witness ==
  /\ testEnv = "constructor"
  /\ currentEnv = "constructor"
  /\ out.op = "getBaseUrl"
  /\ out.ret = Undefined

-----------------------------------------------------------------------------
(* Properties of the tests of one run in one process (SpecSuite) *)

\* C21, as stated: once finalizeTest has persisted a test's summary in the
\* folder of the run, no later operation of the run, finalizeTest of another
\* test included, changes or replaces the persisted summary.
C21_AsStated ==
  [][(RunFolder \in DOMAIN fsDirs /\ fsDirs[RunFolder] # NoFile) =>
        (RunFolder \in DOMAIN fsDirs' /\ fsDirs'[RunFolder] = fsDirs[RunFolder])]_vars

\* The second test of the file has been finalized and the file in the folder
\* of the run holds its summary, no longer that of the first test.
C21_Witness ==
  /\ pc = "done"
  /\ testIdx = 2
  /\ out.op = "finalizeTest"
  /\ out.written
  /\ RunFolder \in DOMAIN fsDirs
  /\ fsDirs[RunFolder] =
       JsonStringify(timestampedSummary(out.summary, clock,
                                        PathJoin(OutputBaseDir, RunFolder)))
  /\ Get(out.summary, "name") = Str("Verify hotel funnel check - Bali")

-----------------------------------------------------------------------------
(* Properties of the environment name of a run (SpecEnv) *)

\* The environment names a folder name or a summary can carry.
EnvironmentNames == {"prod", "staging", "qa", "constructor", "toString"}

\* C28: the environment name embedded in the name of the run's output folder
\* equals the environment name recorded in the Test Summary written into it,
\* for every value of TEST_ENV and after any setEnvironment call.
C28_AsStated ==
  (out.op = "finalizeTest" /\ out.written) =>
     \E e \in EnvironmentNames :
        /\ out.folder = "report-" \o e \o "-"
                           \o (IF useLambdaTest THEN "lambdatest" ELSE "local")
                           \o "-2025-01-01_09-59"
        /\ Get(out.summary, "environment") = Str(e)

\* With TEST_ENV=qa, which the configuration does not hold, and without any
\* setEnvironment call, the summary says 'prod' in a folder named after 'qa'.
C28_Witness ==
  /\ testEnv = "qa"
  /\ currentEnv = "prod"
  /\ ~useLambdaTest
  /\ out.op = "finalizeTest"
  /\ out.written
  /\ out.folder = "report-qa-local-2025-01-01_09-59"
  /\ out.folder \in DOMAIN fsDirs
  /\ Get(out.summary, "environment") = Str("prod")

-----------------------------------------------------------------------------
(* Properties of TestUtils.waitForElementWithRetry (SpecWait) *)

\* C29: waitForElementWithRetry returns normally only if a waitForSelector
\* attempt succeeded; otherwise it makes exactly maxRetries attempts, waits
\* only between two attempts, and then raises; for every maxRetries, 0
\* included.
C29_AsStated ==
  out.op = "waitForElementWithRetry" =>
    LET t == out.trail
    IN /\ ~out.raised => (t # <<>> /\ t[Len(t)] = "ok")
       /\ out.raised => TryCount(t) = out.maxRetries
       /\ \A i \in DOMAIN t :
             t[i] \in {"wait", "waitFailed"} =>
                (t[i - 1] = "fail" /\ i < Len(t) /\ t[i + 1] = "try")

\* Called with maxRetries = 0, waitForElementWithRetry has returned normally
\* without a single waitForSelector attempt.
C29_Witness ==
  /\ out.op = "waitForElementWithRetry"
  /\ out.maxRetries = 0
  /\ ~out.raised
  /\ out.trail = <<>>
  /\ calls > 0

-----------------------------------------------------------------------------
(* Properties of TestDataManager (SpecData) *)

\* What the cache itself guarantees: a load of a cached file returns the
\* cached object without reading the file, no cache entry is replaced or
\* removed, and a failed load adds no entry.
CacheEntriesKept ==
  /\ [][(CallOf("loadTestData") /\ out'.arg \in DOMAIN testDataCache) =>
          /\ ~out'.raised
          /\ ~out'.read
          /\ out'.ret = testDataCache[out'.arg]]_vars
  /\ [][\A f \in DOMAIN testDataCache :
          f \in DOMAIN testDataCache' /\ testDataCache'[f] = testDataCache[f]]_vars
  /\ [][(CallOf("loadTestData") /\ out'.raised) => testDataCache' = testDataCache]_vars

\* C23, as stated: after a successful loadTestData(f) every later
\* loadTestData(f) returns the cached data without reading the file again, a
\* cache entry is never replaced or removed, a failed load adds no entry, and
\* the data a caller obtains for f stays the same for the rest of the process
\* whatever earlier callers did with the value they received.
C23_AsStated ==
  /\ CacheEntriesKept
  /\ [][\A f \in DOMAIN testDataCache :
          heap'[testDataCache'[f]] = heap[testDataCache[f]]]_vars

\* A load answered from the cache has returned data that no fixture file ever
\* held: both destinations, with the skipPayment flag a caller switched on.
C23_Witness ==
  /\ out.op = "loadTestData"
  /\ ~out.raised
  /\ ~out.read
  /\ out.content = [destinations |-> << "Bangkok", "Bali" >>, skipPayment |-> TRUE]

====
